---- MODULE Spec2Model ----
(***************************************************************************)
(* A model of the p2p Proof-of-Stake node (src/p2p/blockchain.py and       *)
(* src/p2p/node.py).                                                       *)
(*                                                                         *)
(* Amounts are counted in units of 0.001 SHEA, so the default gas fee       *)
(* 0.001 is 1, the base reward 0.01 is 10 and the treasury's 1000000.0 is   *)
(* 1000000000.  A digest (sha256, truncated) is modelled by the tuple of    *)
(* the fields it is computed over: equal fields give equal digests and      *)
(* different fields different ones.  A signature made with private key k    *)
(* over digest h is the pair <<k, h>>.                                      *)
(*                                                                         *)
(* Amounts, fees and balances are Python floats: binary floating point,     *)
(* every sum and difference rounded to the nearest representable number,    *)
(* ties to even.  The model keeps MantissaBits significant bits where the   *)
(* float has 53; every whole number of units below 2^MantissaBits is exact, *)
(* and so are the treasury's balance and every amount the model moves       *)
(* unless said otherwise.                                                   *)
(***************************************************************************)
EXTENDS Integers, Sequences, FiniteSets, TLC

(***************************************************************************)
(* Program constants.                                                      *)
(***************************************************************************)
GasFee == 1
BaseReward == 10
TreasuryGenesis == 1000000000
NodeTreasury == 1000000
MinStake == 32
MaxTransactions == 10
GenesisNonce == 0

MantissaBits == 30

TreasuryPub == "Tpub"
TreasuryPriv == "Tpriv"
NoKey == "none"
NoSig == <<>>
NoAddr == "none"
ZeroHash == <<0>>

(***************************************************************************)
(* Float arithmetic.                                                       *)
(***************************************************************************)
Abs(x) == IF x < 0 THEN 0 - x ELSE x

\* the distance between neighbouring floats at magnitude m
RECURSIVE Ulp(_)
Ulp(m) == IF m < 2^MantissaBits THEN 1 ELSE 2 * Ulp(m \div 2)

\* the float nearest to x, ties to the even mantissa
Round(x) ==
    LET m == Abs(x)
        u == Ulp(m)
        q == m \div u
        r == m % u
        v == (IF 2 * r > u \/ (2 * r = u /\ q % 2 = 1) THEN q + 1 ELSE q) * u
    IN  IF x < 0 THEN 0 - v ELSE v

FAdd(a, b) == Round(a + b)

FSub(a, b) == Round(a - b)

(***************************************************************************)
(* utils.py                                                                *)
(***************************************************************************)
\* the private key that belongs to a public key
PrivOf(pub) ==
    CASE pub = TreasuryPub -> TreasuryPriv
      [] pub = "Upub" -> "Upriv"
      [] OTHER -> "nopriv"

\* the address derived from a public key (a digest of it)
generate_address(pub) ==
    CASE pub = TreasuryPub -> "T"
      [] pub = "Upub" -> "U"
      [] OTHER -> "X"

\* keys are hex strings and are serialized as they are
serialize_key(key) == key

deserialize_key(key_str) == key_str

sign_data(priv, data) == <<priv, data>>

verify_signature(pub, data, sig) == sig = <<PrivOf(pub), data>>

TreasuryAddr == generate_address(TreasuryPub)

(***************************************************************************)
(* Transaction                                                             *)
(***************************************************************************)
TxCalculateHash(sender, receiver, amount, timestamp) ==
    <<sender, receiver, amount, timestamp>>

\* Transaction(sender, receiver, amount, gas_fee) built locally at time now
NewTransaction(sender, receiver, amount, gas_fee, now) ==
    [sender |-> sender, receiver |-> receiver, amount |-> amount,
     gas_fee |-> gas_fee, timestamp |-> now,
     tx_hash |-> TxCalculateHash(sender, receiver, amount, now),
     signature |-> NoSig]

sign_transaction(tx, priv) == [tx EXCEPT !.signature = sign_data(priv, tx.tx_hash)]

verify_transaction(tx, pub) ==
    IF tx.signature = NoSig THEN FALSE
    ELSE verify_signature(pub, tx.tx_hash, tx.signature)

TxToDict(tx) ==
    [sender |-> tx.sender, receiver |-> tx.receiver, amount |-> tx.amount,
     gas_fee |-> tx.gas_fee, timestamp |-> tx.timestamp,
     tx_hash |-> tx.tx_hash, signature |-> tx.signature]

\* Transaction.from_dict that does not take the signature over
TxFromDict_DropsSignature(d) ==
    [sender |-> d.sender, receiver |-> d.receiver, amount |-> d.amount,
     gas_fee |-> d.gas_fee, timestamp |-> d.timestamp,
     tx_hash |-> d.tx_hash, signature |-> NoSig]

\* a falsy tx_hash in the data is replaced by the computed one
TxFromDict(d) ==
    [sender |-> d.sender, receiver |-> d.receiver, amount |-> d.amount,
     gas_fee |-> d.gas_fee, timestamp |-> d.timestamp,
     tx_hash |-> IF d.tx_hash = <<>>
                 THEN TxCalculateHash(d.sender, d.receiver, d.amount, d.timestamp)
                 ELSE d.tx_hash,
     signature |-> d.signature]

\* the keys Transaction.from_dict indexes: a KeyError without one of them
TxDataOk(d) ==
    {"sender", "receiver", "amount", "gas_fee", "timestamp", "tx_hash"} \subseteq DOMAIN d

TxHashes(txs) == [i \in 1..Len(txs) |-> txs[i].tx_hash]

HashSet(txs) == {txs[i].tx_hash : i \in 1..Len(txs)}

(***************************************************************************)
(* Block                                                                   *)
(***************************************************************************)
BlockCalculateHash(b) ==
    <<b.number, TxHashes(b.transactions), b.validator, b.previous_hash, b.nonce>>

\* Block(number, transactions, validator_name, previous_hash) with a drawn nonce
NewBlock(number, txs, validator_name, previous_hash, nonce) ==
    LET b0 == [number |-> number, transactions |-> txs, validator |-> validator_name,
               previous_hash |-> previous_hash, nonce |-> nonce, hash |-> <<>>]
    IN  [b0 EXCEPT !.hash = BlockCalculateHash(b0)]

RECURSIVE SumFees(_)
SumFees(txs) ==
    IF txs = <<>> THEN 0 ELSE FAdd(SumFees(SubSeq(txs, 1, Len(txs) - 1)), txs[Len(txs)].gas_fee)

get_total_fees(b) == SumFees(b.transactions)

BlockToDict(b) ==
    [number |-> b.number,
     transactions |-> [i \in 1..Len(b.transactions) |-> TxToDict(b.transactions[i])],
     validator |-> b.validator, previous_hash |-> b.previous_hash,
     nonce |-> b.nonce, hash |-> b.hash]

\* a falsy hash in the data is replaced by the computed one
BlockFromDict(d) ==
    LET b0 == [number |-> d.number,
               transactions |-> [i \in 1..Len(d.transactions) |-> TxFromDict(d.transactions[i])],
               validator |-> d.validator, previous_hash |-> d.previous_hash,
               nonce |-> d.nonce, hash |-> d.hash]
    IN  IF d.hash = <<>> THEN [b0 EXCEPT !.hash = BlockCalculateHash(b0)] ELSE b0

\* the keys Block.from_dict indexes, those of its transactions included
BlockDataOk(d) ==
    /\ {"number", "transactions", "validator", "previous_hash", "nonce", "hash"}
          \subseteq DOMAIN d
    /\ \A i \in 1..Len(d.transactions) : TxDataOk(d.transactions[i])

ChainFromDict(ds) == [i \in 1..Len(ds) |-> BlockFromDict(ds[i])]

ChainToDict(c) == [i \in 1..Len(c) |-> BlockToDict(c[i])]

GenesisBlock == NewBlock(0, <<>>, "Genesis", ZeroHash, GenesisNonce)

(***************************************************************************)
(* Validator, Account                                                      *)
(***************************************************************************)
NewValidator(name, stake, reward_address) ==
    [name |-> name, stake |-> stake, reward_address |-> reward_address,
     blocks_proposed |-> 0, total_rewards |-> 0, is_active |-> TRUE]

NewAccount(name, public_key, balance) ==
    [name |-> name, public_key |-> public_key, balance |-> balance]

HasName(validators, name) == \E i \in 1..Len(validators) : validators[i].name = name

(***************************************************************************)
(* ProofOfStakeBlockchain: the ledger engine.  An engine is a record        *)
(*   blockchain, validators, accounts, pending_transactions,               *)
(*   current_block_number                                                  *)
(* and every operation is an operator from an engine (and its arguments)    *)
(* to the engine after the call, with the value the call returns.           *)
(***************************************************************************)
EngineInit ==
    [blockchain |-> <<GenesisBlock>>,
     validators |-> <<>>,
     accounts |-> (TreasuryAddr :> NewAccount("Treasury", TreasuryPub, TreasuryGenesis)),
     pending_transactions |-> <<>>,
     current_block_number |-> 0]

\* create_account with the address already resolved (given, derived from the
\* public key, or drawn at random by the caller)
create_account(bc, name, initial_balance, address, public_key) ==
    IF address \notin DOMAIN bc.accounts
    THEN [bc EXCEPT !.accounts = @ @@ (address :> NewAccount(name, public_key, initial_balance))]
    ELSE bc

Credit(accounts, address, amount) ==
    [accounts EXCEPT ![address].balance = FAdd(@, amount)]

Debit(accounts, address, amount) ==
    [accounts EXCEPT ![address].balance = FSub(@, amount)]

\* add_validator without the check for a validator of the same name
add_validator_NoDuplicateCheck(bc, name, stake, reward_address, rnd) ==
    IF stake < MinStake THEN [bc |-> bc, ok |-> FALSE]
    ELSE LET bc1 == IF reward_address = NoAddr
                    THEN create_account(bc, "Wallet", 0, rnd, NoKey)
                    ELSE bc
             addr == IF reward_address = NoAddr THEN rnd ELSE reward_address
         IN  [bc |-> [bc1 EXCEPT !.validators = Append(@, NewValidator(name, stake, addr))],
              ok |-> TRUE]

\* add_validator; rnd is the address create_account draws for the wallet
add_validator(bc, name, stake, reward_address, rnd) ==
    IF stake < MinStake THEN [bc |-> bc, ok |-> FALSE]
    ELSE IF HasName(bc.validators, name) THEN [bc |-> bc, ok |-> FALSE]
    ELSE LET bc1 == IF reward_address = NoAddr
                    THEN create_account(bc, "Wallet", 0, rnd, NoKey)
                    ELSE bc
             addr == IF reward_address = NoAddr THEN rnd ELSE reward_address
         IN  [bc |-> [bc1 EXCEPT !.validators = Append(@, NewValidator(name, stake, addr))],
              ok |-> TRUE]

ValidatorToDict(v) ==
    [name |-> v.name, stake |-> v.stake, reward_address |-> v.reward_address,
     blocks_proposed |-> v.blocks_proposed, total_rewards |-> v.total_rewards,
     is_active |-> v.is_active]

ValidatorFromDict(d) ==
    [name |-> d.name, stake |-> d.stake, reward_address |-> d.reward_address,
     blocks_proposed |-> d.blocks_proposed, total_rewards |-> d.total_rewards,
     is_active |-> d.is_active]

\* the keys Validator.from_dict indexes
ValidatorDataOk(d) ==
    {"name", "stake", "reward_address", "blocks_proposed", "total_rewards", "is_active"}
        \subseteq DOMAIN d

\* a KeyError of from_dict is caught and the call returns False
add_validator_from_network(bc, val_data) ==
    IF ~ValidatorDataOk(val_data) THEN [bc |-> bc, ok |-> FALSE]
    ELSE IF HasName(bc.validators, val_data.name) THEN [bc |-> bc, ok |-> FALSE]
    ELSE [bc |-> [bc EXCEPT !.validators = Append(@, ValidatorFromDict(val_data))],
          ok |-> TRUE]

\* Account.send without the balance check
AccountSend_NoBalanceCheck(acc, address, receiver, amount, private_key, gas_fee, now) ==
    LET tx0 == NewTransaction(address, receiver, amount, gas_fee, now)
    IN  [acc |-> [acc EXCEPT !.balance = FSub(@, FAdd(amount, gas_fee))],
         tx |-> IF private_key # NoKey THEN sign_transaction(tx0, private_key) ELSE tx0,
         ok |-> TRUE]

\* Account.send that debits the amount without the gas fee
AccountSend_NoGasFee(acc, address, receiver, amount, private_key, gas_fee, now) ==
    IF acc.balance >= FAdd(amount, gas_fee)
    THEN LET tx0 == NewTransaction(address, receiver, amount, gas_fee, now)
         IN  [acc |-> [acc EXCEPT !.balance = FSub(@, amount)],
              tx |-> IF private_key # NoKey THEN sign_transaction(tx0, private_key) ELSE tx0,
              ok |-> TRUE]
    ELSE [acc |-> acc, tx |-> NewTransaction(address, receiver, amount, gas_fee, now),
          ok |-> FALSE]

\* Account.send: the account after the call and the transaction (ok FALSE: None)
AccountSend(acc, address, receiver, amount, private_key, gas_fee, now) ==
    IF acc.balance >= FAdd(amount, gas_fee)
    THEN LET tx0 == NewTransaction(address, receiver, amount, gas_fee, now)
         IN  [acc |-> [acc EXCEPT !.balance = FSub(@, FAdd(amount, gas_fee))],
              tx |-> IF private_key # NoKey THEN sign_transaction(tx0, private_key) ELSE tx0,
              ok |-> TRUE]
    ELSE [acc |-> acc, tx |-> NewTransaction(address, receiver, amount, gas_fee, now),
          ok |-> FALSE]

add_transaction(bc, sender, receiver, amount, private_key, gas_fee, now) ==
    IF sender \notin DOMAIN bc.accounts THEN [bc |-> bc, ok |-> FALSE]
    ELSE LET bc1 == IF receiver \notin DOMAIN bc.accounts
                    THEN create_account(bc, "Unknown", 0, receiver, NoKey)
                    ELSE bc
             sent == AccountSend(bc1.accounts[sender], sender, receiver, amount,
                                 private_key, gas_fee, now)
             bc2 == [bc1 EXCEPT !.accounts[sender] = sent.acc]
         IN  IF ~sent.ok THEN [bc |-> bc1, ok |-> FALSE]
             ELSE IF bc2.accounts[sender].public_key # NoKey
                     /\ ~verify_transaction(sent.tx, bc2.accounts[sender].public_key)
             THEN [bc |-> [bc2 EXCEPT !.accounts[sender].balance = FAdd(@, FAdd(amount, gas_fee))],
                   ok |-> FALSE]
             ELSE [bc |-> [bc2 EXCEPT !.pending_transactions = Append(@, sent.tx)],
                   ok |-> TRUE]

\* add_remote_transaction without the duplicate check
add_remote_transaction_NoDuplicateCheck(bc, tx) ==
    LET bc1 == IF tx.sender \notin DOMAIN bc.accounts
               THEN create_account(bc, "UnknownSender", 0, tx.sender, NoKey)
               ELSE bc
    IN  [bc |-> [bc1 EXCEPT !.accounts = Debit(@, tx.sender, FAdd(tx.amount, tx.gas_fee)),
                            !.pending_transactions = Append(@, tx)],
         ok |-> TRUE]

add_remote_transaction(bc, tx) ==
    LET bc1 == IF tx.sender \notin DOMAIN bc.accounts
               THEN create_account(bc, "UnknownSender", 0, tx.sender, NoKey)
               ELSE bc
    IN  IF tx.tx_hash \in HashSet(bc1.pending_transactions)
        THEN [bc |-> bc1, ok |-> FALSE]
        ELSE [bc |-> [bc1 EXCEPT !.accounts = Debit(@, tx.sender, FAdd(tx.amount, tx.gas_fee)),
                                 !.pending_transactions = Append(@, tx)],
              ok |-> TRUE]

ActiveIndexes(validators) == {i \in 1..Len(validators) : validators[i].is_active}

RECURSIVE SumStake(_, _)
SumStake(validators, idx) ==
    IF idx = {} THEN 0
    ELSE LET i == CHOOSE j \in idx : TRUE
         IN  validators[i].stake + SumStake(validators, idx \ {i})

get_total_stake(validators) == SumStake(validators, ActiveIndexes(validators))

\* the walk of select_validator stopping only when the draw is below the
\* accumulated stake
RECURSIVE SelectWalk_Strict(_, _, _, _)
SelectWalk_Strict(validators, i, cumulative, random_value) ==
    IF i > Len(validators) THEN 0
    ELSE IF ~validators[i].is_active
    THEN SelectWalk_Strict(validators, i + 1, cumulative, random_value)
    ELSE IF random_value < cumulative + validators[i].stake THEN i
    ELSE SelectWalk_Strict(validators, i + 1, cumulative + validators[i].stake, random_value)

\* the walk of select_validator from list position i with the stake accumulated so far
RECURSIVE SelectWalk(_, _, _, _)
SelectWalk(validators, i, cumulative, random_value) ==
    IF i > Len(validators) THEN 0
    ELSE IF ~validators[i].is_active
    THEN SelectWalk(validators, i + 1, cumulative, random_value)
    ELSE IF random_value <= cumulative + validators[i].stake THEN i
    ELSE SelectWalk(validators, i + 1, cumulative + validators[i].stake, random_value)

FirstActive(validators) == CHOOSE i \in ActiveIndexes(validators) :
                               \A j \in ActiveIndexes(validators) : i <= j

\* select_validator for the draw random_value: the position in the list of the
\* validator selected, 0 for None
select_validator(validators, random_value) ==
    IF ActiveIndexes(validators) = {} THEN 0
    ELSE IF get_total_stake(validators) = 0 THEN FirstActive(validators)
    ELSE LET w == SelectWalk(validators, 1, 0, random_value)
         IN  IF w = 0 THEN FirstActive(validators) ELSE w

\* the crediting loop of mine_block that also hands the gas fee to the receiver
RECURSIVE CreditReceivers_WithFee(_, _)
CreditReceivers_WithFee(bc, txs) ==
    IF txs = <<>> THEN bc
    ELSE LET tx == Head(txs)
             bc1 == create_account(bc, "Unknown", 0, tx.receiver, NoKey)
         IN  CreditReceivers_WithFee(
                 [bc1 EXCEPT !.accounts = Credit(@, tx.receiver, tx.amount + tx.gas_fee)],
                 Tail(txs))

\* for tx in transactions_to_include: create the receiver if missing, receive(amount)
RECURSIVE CreditReceivers(_, _)
CreditReceivers(bc, txs) ==
    IF txs = <<>> THEN bc
    ELSE LET tx == Head(txs)
             bc1 == create_account(bc, "Unknown", 0, tx.receiver, NoKey)
         IN  CreditReceivers([bc1 EXCEPT !.accounts = Credit(@, tx.receiver, tx.amount)],
                             Tail(txs))

Min(a, b) == IF a < b THEN a ELSE b

\* propose_block that leaves the gas fees out of the reward
propose_block_NoFees(v, block_number, txs, previous_hash, nonce) ==
    LET block == NewBlock(block_number, txs, v.name, previous_hash, nonce)
    IN  [block |-> block, reward |-> BaseReward,
         v |-> [v EXCEPT !.blocks_proposed = @ + 1, !.total_rewards = FAdd(@, BaseReward)]]

\* Validator.propose_block: the block, the reward and the validator after the call
propose_block(v, block_number, txs, previous_hash, nonce) ==
    LET block == NewBlock(block_number, txs, v.name, previous_hash, nonce)
        total_reward == FAdd(BaseReward, get_total_fees(block))
    IN  [block |-> block, reward |-> total_reward,
         v |-> [v EXCEPT !.blocks_proposed = @ + 1, !.total_rewards = FAdd(@, total_reward)]]

\* mine_block that leaves the included transactions in the mempool
mine_block_KeepsMempool(bc, max_transactions, random_value, nonce) ==
    IF bc.validators = <<>> THEN [bc |-> bc, ok |-> FALSE, block |-> GenesisBlock]
    ELSE LET sel == select_validator(bc.validators, random_value)
         IN  IF sel = 0 THEN [bc |-> bc, ok |-> FALSE, block |-> GenesisBlock]
             ELSE
             LET pend == bc.pending_transactions
                 k == Min(max_transactions, Len(pend))
                 txs == SubSeq(pend, 1, k)
                 previous_hash == bc.blockchain[Len(bc.blockchain)].hash
                 number == bc.current_block_number + 1
                 p == propose_block(bc.validators[sel], number, txs, previous_hash, nonce)
                 bc1 == [bc EXCEPT !.current_block_number = number,
                                   !.validators[sel] = p.v]
                 bc2 == CreditReceivers(bc1, txs)
                 bc3 == create_account(bc2, "Wallet", 0, p.v.reward_address, NoKey)
                 bc4 == [bc3 EXCEPT !.accounts = Credit(@, p.v.reward_address, p.reward),
                                    !.blockchain = Append(@, p.block)]
             IN  [bc |-> bc4, ok |-> TRUE, block |-> p.block]

mine_block(bc, max_transactions, random_value, nonce) ==
    IF bc.validators = <<>> THEN [bc |-> bc, ok |-> FALSE, block |-> GenesisBlock]
    ELSE LET sel == select_validator(bc.validators, random_value)
         IN  IF sel = 0 THEN [bc |-> bc, ok |-> FALSE, block |-> GenesisBlock]
             ELSE
             LET pend == bc.pending_transactions
                 k == Min(max_transactions, Len(pend))
                 txs == SubSeq(pend, 1, k)
                 previous_hash == bc.blockchain[Len(bc.blockchain)].hash
                 number == bc.current_block_number + 1
                 p == propose_block(bc.validators[sel], number, txs, previous_hash, nonce)
                 bc1 == [bc EXCEPT !.pending_transactions = SubSeq(pend, k + 1, Len(pend)),
                                   !.current_block_number = number,
                                   !.validators[sel] = p.v]
                 bc2 == CreditReceivers(bc1, txs)
                 bc3 == create_account(bc2, "Wallet", 0, p.v.reward_address, NoKey)
                 bc4 == [bc3 EXCEPT !.accounts = Credit(@, p.v.reward_address, p.reward),
                                    !.blockchain = Append(@, p.block)]
             IN  [bc |-> bc4, ok |-> TRUE, block |-> p.block]

\* the transfers of _apply_block_state: for each transaction create sender and
\* receiver if missing, debit amount + gas_fee, credit amount
RECURSIVE ApplyTransfers(_, _)
ApplyTransfers(bc, txs) ==
    IF txs = <<>> THEN bc
    ELSE LET tx == Head(txs)
             bc1 == create_account(bc, "UnknownSender", 0, tx.sender, NoKey)
             bc2 == create_account(bc1, "UnknownReceiver", 0, tx.receiver, NoKey)
             a1 == Debit(bc2.accounts, tx.sender, FAdd(tx.amount, tx.gas_fee))
             a2 == Credit(a1, tx.receiver, tx.amount)
         IN  ApplyTransfers([bc2 EXCEPT !.accounts = a2], Tail(txs))

\* next(v for v in validators if v.name == name): its position, 0 for None
FindValidator(validators, name) ==
    IF HasName(validators, name)
    THEN CHOOSE i \in 1..Len(validators) :
            /\ validators[i].name = name
            /\ \A j \in 1..(i - 1) : validators[j].name # name
    ELSE 0

\* the reward of _apply_block_state, paid to the reward address of the validator
\* the node has under the block's validator name
ApplyReward(bc, block) ==
    LET vi == FindValidator(bc.validators, block.validator)
    IN  IF block.validator = "" \/ vi = 0 THEN bc
        ELSE LET addr == bc.validators[vi].reward_address
                 bc1 == create_account(bc, "Wallet", 0, addr, NoKey)
             IN  [bc1 EXCEPT !.accounts = Credit(@, addr, FAdd(BaseReward, get_total_fees(block)))]

apply_block_state(bc, block) == ApplyReward(ApplyTransfers(bc, block.transactions), block)

RECURSIVE ReplayBlocks(_, _)
ReplayBlocks(bc, blocks) ==
    IF blocks = <<>> THEN bc
    ELSE ReplayBlocks(apply_block_state(bc, Head(blocks)), Tail(blocks))

\* rebuild_state replaying the chain over the accounts as they are
rebuild_state_KeepsAccounts(bc) ==
    ReplayBlocks([bc EXCEPT !.pending_transactions = <<>>], Tail(bc.blockchain))

\* rebuild_state that leaves the mempool as it is
rebuild_state_KeepsPending(bc) ==
    LET bc0 == [bc EXCEPT
                  !.accounts = (TreasuryAddr :> NewAccount("Treasury", TreasuryPub, TreasuryGenesis))]
    IN  ReplayBlocks(bc0, Tail(bc.blockchain))

rebuild_state(bc) ==
    LET bc0 == [bc EXCEPT
                  !.accounts = (TreasuryAddr :> NewAccount("Treasury", TreasuryPub, TreasuryGenesis)),
                  !.pending_transactions = <<>>]
    IN  ReplayBlocks(bc0, Tail(bc.blockchain))

\* the reversal of the speculative debit of each block transaction whose hash is
\* in the mempool
RECURSIVE RevertPending(_, _, _)
RevertPending(accounts, txs, local_pending_hashes) ==
    IF txs = <<>> THEN accounts
    ELSE LET tx == Head(txs)
             a1 == IF tx.tx_hash \in local_pending_hashes /\ tx.sender \in DOMAIN accounts
                   THEN Credit(accounts, tx.sender, FAdd(tx.amount, tx.gas_fee))
                   ELSE accounts
         IN  RevertPending(a1, Tail(txs), local_pending_hashes)

\* the purge that removes nothing
PurgePending_KeepsAll(pending, hashes) == pending

\* the mempool without the transactions whose hash is in hashes, order kept
RECURSIVE PurgePending(_, _)
PurgePending(pending, hashes) ==
    IF pending = <<>> THEN <<>>
    ELSE IF Head(pending).tx_hash \in hashes THEN PurgePending(Tail(pending), hashes)
    ELSE <<Head(pending)>> \o PurgePending(Tail(pending), hashes)

\* the checks of add_block_from_network without the one of the number
ExtendsHead_NoNumberCheck(bc, block) ==
    block.previous_hash = bc.blockchain[Len(bc.blockchain)].hash

\* the two checks of add_block_from_network
ExtendsHead(bc, block) ==
    LET last_block == bc.blockchain[Len(bc.blockchain)]
    IN  /\ block.number = last_block.number + 1
        /\ block.previous_hash = last_block.hash

\* a KeyError of Block.from_dict is caught and the call returns False
add_block_from_network(bc, block_data) ==
    IF ~BlockDataOk(block_data) THEN [bc |-> bc, ok |-> FALSE] ELSE
    LET block == BlockFromDict(block_data)
    IN  IF ~ExtendsHead(bc, block) THEN [bc |-> bc, ok |-> FALSE]
        ELSE LET reverted == RevertPending(bc.accounts, block.transactions,
                                           HashSet(bc.pending_transactions))
                 bc1 == apply_block_state([bc EXCEPT !.accounts = reverted], block)
             IN  [bc |-> [bc1 EXCEPT
                            !.blockchain = Append(@, block),
                            !.current_block_number = block.number,
                            !.pending_transactions = PurgePending(@, HashSet(block.transactions))],
                  ok |-> TRUE]

is_chain_valid(chain) ==
    \A i \in 2..Len(chain) :
        /\ chain[i].previous_hash = chain[i - 1].hash
        /\ chain[i].hash = BlockCalculateHash(chain[i])

\* replace_chain adopting every longer chain, valid or not
replace_chain_NoValidation(bc, new_chain_data) ==
    LET new_chain == ChainFromDict(new_chain_data)
    IN  IF Len(new_chain) > Len(bc.blockchain)
        THEN [bc |-> rebuild_state([bc EXCEPT !.blockchain = new_chain,
                                              !.current_block_number = Len(new_chain) - 1]),
              ok |-> TRUE]
        ELSE [bc |-> bc, ok |-> FALSE]

replace_chain(bc, new_chain_data) ==
    LET new_chain == ChainFromDict(new_chain_data)
    IN  IF Len(new_chain) > Len(bc.blockchain) /\ is_chain_valid(new_chain)
        THEN [bc |-> rebuild_state([bc EXCEPT !.blockchain = new_chain,
                                              !.current_block_number = Len(new_chain) - 1]),
              ok |-> TRUE]
        ELSE [bc |-> bc, ok |-> FALSE]

\* what Python takes for false in "if public_key": None and the empty string
Falsy(key) == key = NoKey \/ key = ""

AccountToDict(a) ==
    [name |-> a.name,
     public_key |-> IF Falsy(a.public_key) THEN NoKey ELSE serialize_key(a.public_key),
     balance |-> a.balance]

AccountFromDict(d) ==
    [name |-> d.name,
     public_key |-> IF Falsy(d.public_key) THEN NoKey ELSE deserialize_key(d.public_key),
     balance |-> d.balance]

\* ProofOfStakeBlockchain.to_dict: the snapshot sent as CHAIN_RESPONSE
EngineToDict(bc) ==
    [chain |-> ChainToDict(bc.blockchain),
     validators |-> [i \in 1..Len(bc.validators) |-> ValidatorToDict(bc.validators[i])],
     accounts |-> [a \in DOMAIN bc.accounts |-> AccountToDict(bc.accounts[a])],
     pending_txs |-> [i \in 1..Len(bc.pending_transactions) |->
                         TxToDict(bc.pending_transactions[i])]]

\* the keys ProofOfStakeBlockchain.from_dict indexes, those of the parts included
EngineDataOk(data) ==
    /\ {"chain", "validators", "accounts", "pending_txs"} \subseteq DOMAIN data
    /\ \A i \in 1..Len(data.chain) : BlockDataOk(data.chain[i])
    /\ \A i \in 1..Len(data.validators) : ValidatorDataOk(data.validators[i])
    /\ \A a \in DOMAIN data.accounts : {"name", "balance"} \subseteq DOMAIN data.accounts[a]
    /\ \A i \in 1..Len(data.pending_txs) : TxDataOk(data.pending_txs[i])

\* ProofOfStakeBlockchain.from_dict: a new engine holding the snapshot
EngineFromDict(data) ==
    [blockchain |-> ChainFromDict(data.chain),
     validators |-> [i \in 1..Len(data.validators) |-> ValidatorFromDict(data.validators[i])],
     accounts |-> [a \in DOMAIN data.accounts |-> AccountFromDict(data.accounts[a])],
     pending_transactions |-> [i \in 1..Len(data.pending_txs) |-> TxFromDict(data.pending_txs[i])],
     current_block_number |-> Len(data.chain) - 1]

(***************************************************************************)
(* Bounds of the model.                                                    *)
(***************************************************************************)
MaxOps == 2

Nodes == {1, 2}
\* the nonces random.randint draws: the blocks of two nodes may or may not
\* share one
Nonces(n) == IF n = 1 THEN {1000} ELSE {1000, 1001}
Conns == {c \in Nodes \X Nodes : c[1] # c[2]}
Threads == {0, 1, 2}

\* the address create_account draws at random for the wallet node n makes in
\* Node.__init__ for its validator, and for its account named Treasury
ValidatorWallet(n) == IF n = 1 THEN "g1" ELSE IF n = 2 THEN "g2" ELSE "g3"
NodeTreasuryAddr(n) == IF n = 1 THEN "t1" ELSE IF n = 2 THEN "t2" ELSE "t3"

(***************************************************************************)
(* State.                                                                  *)
(*   bc[n]      the ledger engine of node n (Node.blockchain)               *)
(*   peers[n]   the endpoints node n connected to (Node.peers)              *)
(*   active[n]  Node.active_connections; a connection is the pair           *)
(*              <<initiator, acceptor>>                                     *)
(*   readers    the running handle_client loops, <<connection, node>>       *)
(*   chan[c][n] the messages sent on connection c that node n has not read  *)
(*   events[n]  how often node n's on_event callback was called             *)
(*   ret        the last operation: its name, node, result and argument     *)
(*   debits[n]  for each transaction hash, the debits of amount + gas_fee   *)
(*              made to its sender's balance on node n, less the reversals  *)
(*   nOps how many blocks were mined and transactions submitted       *)
(***************************************************************************)
VARIABLES bc, peers, active, readers, chan, events, ret, debits, nOps, pc, loc

vars == <<bc, peers, active, readers, chan, events, ret, debits, nOps, pc, loc>>

Other(c, n) == IF c[1] = n THEN c[2] ELSE c[1]

\* Node.__init__: the engine with the node's validator and its Treasury account
NodeEngineInit(n) ==
    LET v == add_validator(EngineInit, "Genesis_Validator", MinStake, NoAddr, ValidatorWallet(n))
    IN  create_account(v.bc, "Treasury", NodeTreasury, NodeTreasuryAddr(n), NoKey)

NoRet == [op |-> "init", node |-> 0, ok |-> TRUE, arg |-> <<>>]

Init ==
    /\ bc = [n \in Nodes |-> NodeEngineInit(n)]
    /\ peers = [n \in Nodes |-> {}]
    /\ active = [n \in Nodes |-> {}]
    /\ readers = {}
    /\ chan = [c \in Conns |-> [n \in Nodes |-> <<>>]]
    /\ events = [n \in Nodes |-> 0]
    /\ ret = NoRet
    /\ debits = [n \in Nodes |-> <<>>]
    /\ nOps = 0
    /\ pc = [t \in Threads |-> "idle"]
    /\ loc = [t \in Threads |-> <<>>]

(***************************************************************************)
(* The count of debits per transaction hash.                               *)
(***************************************************************************)
DebitCount(d, h) == IF h \in DOMAIN d THEN d[h] ELSE 0

AddDebit(d, h, k) ==
    IF h \in DOMAIN d THEN [d EXCEPT ![h] = @ + k] ELSE d @@ (h :> k)

\* add_block_from_network on engine e: each block transaction found in the mempool
\* (its sender known) is reversed, then every block transaction is debited
RECURSIVE DebitsAfterBlock(_, _, _)
DebitsAfterBlock(d, e, txs) ==
    IF txs = <<>> THEN d
    ELSE LET tx == Head(txs)
             rev == IF tx.tx_hash \in HashSet(e.pending_transactions)
                       /\ tx.sender \in DOMAIN e.accounts
                    THEN -1 ELSE 0
         IN  DebitsAfterBlock(AddDebit(d, tx.tx_hash, rev + 1), e, Tail(txs))

(***************************************************************************)
(* Sending.                                                                *)
(***************************************************************************)
\* send_message(conn, msg) by node n
Send(ch, c, n, msg) == [ch EXCEPT ![c][Other(c, n)] = Append(@, msg)]

\* broadcast that stops after the first connection
BroadcastTo_FirstOnly(ch, cs, n, msg) ==
    IF cs = {} THEN ch
    ELSE Send(ch, CHOOSE x \in cs : TRUE, n, msg)

\* broadcast(msg) by node n: send_message on every active connection
RECURSIVE BroadcastTo(_, _, _, _)
BroadcastTo(ch, cs, n, msg) ==
    IF cs = {} THEN ch
    ELSE LET c == CHOOSE x \in cs : TRUE
         IN  BroadcastTo(Send(ch, c, n, msg), cs \ {c}, n, msg)

Broadcast(ch, n, msg) == BroadcastTo(ch, active[n], n, msg)

(***************************************************************************)
(* Node: connections.                                                      *)
(***************************************************************************)
\* connect_to_peer(m) by node n; the connection attempt itself succeeds
ConnectToPeer(n, m) ==
    LET c == <<n, m>>
    IN  /\ n # m
        /\ m \notin peers[n]
        /\ peers' = [peers EXCEPT ![n] = @ \cup {m}]
        /\ active' = [active EXCEPT ![n] = @ \cup {c}]
        /\ chan' = Send(Send(chan, c, n, [type |-> "HANDSHAKE"]), c, n, [type |-> "GET_CHAIN"])
        /\ readers' = readers \cup {<<c, n>>}
        /\ UNCHANGED <<pc, loc, bc, events, ret, debits, nOps>>

\* start_server: accept() returns connection c on its acceptor
Accept(c) ==
    /\ <<c, c[1]>> \in readers
    /\ <<c, c[2]>> \notin readers
    /\ active' = [active EXCEPT ![c[2]] = @ \cup {c}]
    /\ readers' = readers \cup {<<c, c[2]>>}
    /\ UNCHANGED <<pc, loc, ret, bc, peers, chan, events, debits, nOps>>

(***************************************************************************)
(* Node.handle_message, one action per message type: the reader loop of     *)
(* node n on connection c takes the next message.                           *)
(***************************************************************************)
Readable(n, c, type) ==
    /\ <<c, n>> \in readers
    /\ chan[c][n] # <<>>
    /\ Head(chan[c][n]).type = type

Taken(n, c) == [chan EXCEPT ![c][n] = Tail(@)]

HandleHandshake(n, c) ==
    /\ Readable(n, c, "HANDSHAKE")
    /\ chan' = Taken(n, c)
    /\ UNCHANGED <<pc, loc, ret, bc, peers, active, readers, events, debits, nOps>>

HandleGetChain(n, c) ==
    /\ Readable(n, c, "GET_CHAIN")
    /\ chan' = Send(Taken(n, c), c, n,
                    [type |-> "CHAIN_RESPONSE", data |-> EngineToDict(bc[n]),
                     debits |-> debits[n]])
    /\ UNCHANGED <<pc, loc, ret, bc, peers, active, readers, events, debits, nOps>>

\* trigger_event with no callback registered
trigger_event_Unregistered(ev, n) == ev

\* trigger_event on node n, its on_event callback registered
trigger_event(ev, n) == [ev EXCEPT ![n] = @ + 1]

\* the mempool sync appending every snapshot transaction
RECURSIVE MergePending_NoHashCheck(_, _)
MergePending_NoHashCheck(pending, tx_datas) ==
    IF tx_datas = <<>> THEN pending
    ELSE MergePending_NoHashCheck(Append(pending, TxFromDict(Head(tx_datas))), Tail(tx_datas))

\* the mempool sync of CHAIN_RESPONSE: each snapshot transaction whose hash is
\* not in the mempool is appended, one that from_dict rejects is passed over
RECURSIVE MergePending(_, _)
MergePending(pending, tx_datas) ==
    IF tx_datas = <<>> THEN pending
    ELSE IF ~TxDataOk(Head(tx_datas)) THEN MergePending(pending, Tail(tx_datas))
    ELSE LET tx == TxFromDict(Head(tx_datas))
         IN  MergePending(IF tx.tx_hash \in HashSet(pending) THEN pending
                          ELSE Append(pending, tx),
                          Tail(tx_datas))

\* whether CHAIN_RESPONSE replaces the engine
ChainIsLonger(e, data) ==
    "chain" \in DOMAIN data /\ Len(data.chain) > Len(e.blockchain)

\* remote_chain_data.get('pending_txs', [])
PendingTxs(data) == IF "pending_txs" \in DOMAIN data THEN data.pending_txs ELSE <<>>

\* the reader of connection c on node n after a message: an exception of
\* handle_message other than JSONDecodeError ends the loop of handle_client
ReadersAfter(n, c, raises) == IF raises THEN readers \ {<<c, n>>} ELSE readers

\* the finally clause of handle_client removes the closed connection
ActiveAfter(n, c, raises) == IF raises THEN [active EXCEPT ![n] = @ \ {c}] ELSE active

\* the engine of a node with engine e after CHAIN_RESPONSE with snapshot data
ChainResponse(e, data) ==
    LET e1 == IF ChainIsLonger(e, data) THEN EngineFromDict(data) ELSE e
    IN  [e1 EXCEPT !.pending_transactions = MergePending(@, PendingTxs(data))]

\* from_dict of a longer chain raises on a snapshot with a key missing: the
\* engine is not replaced and the exception leaves handle_message
HandleChainResponse(n, c) ==
    /\ Readable(n, c, "CHAIN_RESPONSE")
    /\ LET msg == Head(chan[c][n])
           longer == ChainIsLonger(bc[n], msg.data)
           raises == longer /\ ~EngineDataOk(msg.data)
       IN  /\ bc' = IF raises THEN bc ELSE [bc EXCEPT ![n] = ChainResponse(bc[n], msg.data)]
           /\ events' = IF longer /\ ~raises THEN trigger_event(events, n) ELSE events
           /\ debits' = [debits EXCEPT ![n] = IF longer /\ ~raises THEN msg.debits ELSE @]
           /\ readers' = ReadersAfter(n, c, raises)
           /\ active' = ActiveAfter(n, c, raises)
           /\ UNCHANGED ret
    /\ chan' = Taken(n, c)
    /\ UNCHANGED <<pc, loc, peers, nOps>>

\* the test for a resync one block too late
IsAhead_OffByOne(e, block_data) == block_data.number > e.current_block_number + 2

\* whether a rejected block makes the node ask for the chain
IsAhead(e, block_data) == block_data.number > e.current_block_number + 1

\* block_data['number'] of a rejected block raises KeyError when the block has
\* no number
HandleNewBlock(n, c) ==
    /\ Readable(n, c, "NEW_BLOCK")
    /\ LET msg == Head(chan[c][n])
           r == add_block_from_network(bc[n], msg.block)
           raises == ~r.ok /\ "number" \notin DOMAIN msg.block
       IN  /\ bc' = [bc EXCEPT ![n] = r.bc]
           /\ events' = IF r.ok THEN trigger_event(events, n) ELSE events
           /\ debits' = [debits EXCEPT ![n] =
                           IF r.ok THEN DebitsAfterBlock(@, bc[n], msg.block.transactions)
                           ELSE @]
           /\ chan' = IF ~r.ok /\ ~raises /\ IsAhead(bc[n], msg.block)
                      THEN Send(Taken(n, c), c, n, [type |-> "GET_CHAIN"])
                      ELSE Taken(n, c)
           /\ readers' = ReadersAfter(n, c, raises)
           /\ active' = ActiveAfter(n, c, raises)
           /\ UNCHANGED <<pc, loc, ret, peers, nOps>>

\* an exception of from_dict or of add_remote_transaction is caught in the branch
HandleNewTx(n, c) ==
    /\ Readable(n, c, "NEW_TX")
    /\ IF ~TxDataOk(Head(chan[c][n]).tx) THEN UNCHANGED <<bc, debits, ret>>
       ELSE LET tx == TxFromDict(Head(chan[c][n]).tx)
                r == add_remote_transaction(bc[n], tx)
            IN  /\ bc' = [bc EXCEPT ![n] = r.bc]
                /\ debits' = [debits EXCEPT ![n] =
                                IF r.ok THEN AddDebit(@, tx.tx_hash, 1) ELSE @]
                /\ UNCHANGED ret
    /\ chan' = Taken(n, c)
    /\ UNCHANGED <<pc, loc, peers, active, readers, events, nOps>>

(***************************************************************************)
(* Node: the facade.                                                       *)
(***************************************************************************)
\* what the model submits: <<sender, receiver>>, amount, private key, time
Transfers == {<<"T", "U">>}
Amounts == {100000}
PrivateKeys == {TreasuryPriv}
Times == {1}

Last(seq) == seq[Len(seq)]

\* Node.send_transaction: what it does to the engine and the connections
SendTransactionStep(n, sender, receiver, amount, private_key, now) ==
    LET r == add_transaction(bc[n], sender, receiver, amount, private_key, GasFee, now)
    IN  /\ bc' = [bc EXCEPT ![n] = r.bc]
        /\ chan' = IF r.ok
                   THEN Broadcast(chan, n, [type |-> "NEW_TX",
                                            tx |-> TxToDict(Last(r.bc.pending_transactions))])
                   ELSE chan
        /\ debits' = [debits EXCEPT ![n] =
                        IF r.ok THEN AddDebit(@, Last(r.bc.pending_transactions).tx_hash, 1)
                        ELSE @]
        /\ UNCHANGED <<pc, loc, peers, active, readers, events>>

\* Node.send_transaction
SendTransaction(n, sender, receiver, amount, private_key, now) ==
    /\ nOps < MaxOps
    /\ nOps' = nOps + 1
    /\ SendTransactionStep(n, sender, receiver, amount, private_key, now)
    /\ UNCHANGED ret

\* the draws of select_validator that the model tries: both ends of
\* random.uniform(0, total_stake)
Draws(validators) == {0, get_total_stake(validators)}

\* Node.mine: what it does to the engine and the connections
MineStep(n, random_value, nonce) ==
    LET r == mine_block(bc[n], MaxTransactions, random_value, nonce)
    IN  /\ bc' = [bc EXCEPT ![n] = r.bc]
        /\ chan' = IF r.ok
                   THEN Broadcast(chan, n, [type |-> "NEW_BLOCK", block |-> BlockToDict(r.block)])
                   ELSE chan
        /\ UNCHANGED <<pc, loc, peers, active, readers, events, debits>>

\* Node.mine
Mine(n, random_value, nonce) ==
    /\ nOps < MaxOps
    /\ nOps' = nOps + 1
    /\ MineStep(n, random_value, nonce)
    /\ UNCHANGED ret

\* Node.create_validator: what it does to the engine and the connections
CreateValidatorStep(n, name, stake, reward_address) ==
    LET r == add_validator(bc[n], name, stake, reward_address, ValidatorWallet(n))
    IN  /\ bc' = [bc EXCEPT ![n] = r.bc]
        /\ chan' = IF r.ok
                   THEN Broadcast(chan, n, [type |-> "NEW_VALIDATOR",
                                            data |-> ValidatorToDict(Last(r.bc.validators))])
                   ELSE chan
        /\ UNCHANGED <<pc, loc, peers, active, readers, events, debits>>

\* handle_message, NEW_VALIDATOR
HandleNewValidator(n, c) ==
    /\ Readable(n, c, "NEW_VALIDATOR")
    /\ bc' = [bc EXCEPT ![n] = add_validator_from_network(@, Head(chan[c][n]).data).bc]
    /\ chan' = Taken(n, c)
    /\ UNCHANGED <<pc, loc, ret, peers, active, readers, events, debits, nOps>>

Next ==
    \/ \E n \in Nodes, m \in Nodes : ConnectToPeer(n, m)
    \/ \E c \in Conns : Accept(c)
    \/ \E n \in Nodes, c \in Conns : HandleHandshake(n, c)
    \/ \E n \in Nodes, c \in Conns : HandleGetChain(n, c)
    \/ \E n \in Nodes, c \in Conns : HandleChainResponse(n, c)
    \/ \E n \in Nodes, c \in Conns : HandleNewBlock(n, c)
    \/ \E n \in Nodes, c \in Conns : HandleNewTx(n, c)
    \/ \E n \in Nodes, t \in Transfers, a \in Amounts, k \in PrivateKeys, now \in Times :
          SendTransaction(n, t[1], t[2], a, k, now)
    \/ \E n \in Nodes : \E nonce \in Nonces(n), r \in Draws(bc[n].validators) : Mine(n, r, nonce)

Spec == Init /\ [][Next]_vars

(***************************************************************************)
(* The ledger engine alone: the operations of ProofOfStakeBlockchain called *)
(* on the engine of node 1 with arguments of any content, as a peer or a    *)
(* caller may supply them.                                                  *)
(***************************************************************************)
MaxEngineOps == 3

EngineTransfers == {<<"T", "U">>, <<"U", "T">>}
EngineTimes == {1, 2}
\* no private key, the treasury's, and one that is not the sender's
EngineKeys == {NoKey, TreasuryPriv, "Upriv"}

\* a digest that is not the digest of any block
ForgedHash == <<-1>>

\* transactions a peer may send: the faucet transfer a node may also submit
\* itself, and a transfer of a sender the node does not know
RemoteTxs ==
    {sign_transaction(NewTransaction("T", "U", 100000, GasFee, 1), TreasuryPriv),
     NewTransaction("X", "U", 5, GasFee, 1)}

\* a transfer to the treasury that takes its balance beyond 2^MantissaBits units,
\* where a balance less an odd amount + gas_fee is no float
LargeAmount == 2^MantissaBits - TreasuryGenesis + (100000 + GasFee + 1)

LargeTx == NewTransaction("X", "T", LargeAmount, GasFee, 1)

\* a block made by a peer on top of block prev
ExtBlock(prev, txs, nonce) ==
    NewBlock(prev.number + 1, txs, "Genesis_Validator", prev.hash, nonce)

Forge(block) == [block EXCEPT !.hash = ForgedHash]

Head_(e) == e.blockchain[Len(e.blockchain)]

\* serialized blocks a peer may send to an engine e: extensions of its head
\* (also with a forged hash), blocks with another number or another previous
\* hash, and other blocks for the height of the head
BlockCandidates(e) ==
    LET head == Head_(e)
        good == {ExtBlock(head, txs, nonce) :
                    txs \in {<<>>} \cup {<<t>> : t \in RemoteTxs}, nonce \in {1, 2}}
        large == {ExtBlock(head, <<LargeTx>>, 1)}
        forged == {Forge(b) : b \in good}
        misplaced == {[ExtBlock(head, <<>>, 1) EXCEPT !.number = head.number + 2],
                      [ExtBlock(head, <<>>, 1) EXCEPT !.number = head.number],
                      [ExtBlock(head, <<>>, 1) EXCEPT !.previous_hash = ZeroHash]}
        siblings == IF Len(e.blockchain) >= 2
                    THEN {ExtBlock(e.blockchain[Len(e.blockchain) - 1], <<>>, nonce) :
                             nonce \in {1, 2}}
                    ELSE {}
    IN  {BlockToDict(b) : b \in good \cup large \cup forged \cup misplaced \cup siblings}

\* serialized chains a caller may pass to replace_chain on engine e
ChainCandidates(e) ==
    LET chain == e.blockchain
        head == Head_(e)
        b1 == ExtBlock(head, <<>>, 1)
        b1x == ExtBlock(head, <<NewTransaction("X", "U", 5, GasFee, 1)>>, 2)
        b2 == ExtBlock(b1, <<>>, 1)
        longer == {Append(chain, b1), Append(chain, b1x), Append(chain, b1) \o <<b2>>}
        invalid == {Append(chain, Forge(b1)),
                    Append(chain, [b1 EXCEPT !.previous_hash = ZeroHash]),
                    Append(chain, Forge(b1)) \o <<b2>>}
        notlonger == {chain} \cup
                     (IF Len(chain) >= 2
                      THEN {SubSeq(chain, 1, Len(chain) - 1),
                            Append(SubSeq(chain, 1, Len(chain) - 1),
                                   ExtBlock(chain[Len(chain) - 1], <<>>, 2))}
                      ELSE {})
        forks == IF Len(chain) >= 2
                 THEN {Append(SubSeq(chain, 1, Len(chain) - 1),
                              ExtBlock(chain[Len(chain) - 1], <<>>, 2))
                       \o <<ExtBlock(ExtBlock(chain[Len(chain) - 1], <<>>, 2), <<>>, 1)>>}
                 ELSE {}
    IN  {ChainToDict(c) : c \in longer \cup invalid \cup notlonger \cup forks}

EngineStep(op, r, arg) ==
    /\ nOps < MaxEngineOps
    /\ nOps' = nOps + 1
    /\ bc' = [bc EXCEPT ![1] = r.bc]
    /\ ret' = [op |-> op, node |-> 1, ok |-> r.ok, arg |-> arg]
    /\ UNCHANGED <<pc, loc, peers, active, readers, chan, events, debits>>

EAddTransaction(sender, receiver, amount, private_key, gas_fee, now) ==
    EngineStep("add_transaction",
               add_transaction(bc[1], sender, receiver, amount, private_key, gas_fee, now),
               <<sender, receiver, amount, private_key, gas_fee, now>>)

EAddRemoteTransaction(tx) ==
    EngineStep("add_remote_transaction", add_remote_transaction(bc[1], tx), tx)

EMineBlock(random_value, nonce) ==
    EngineStep("mine_block", mine_block(bc[1], MaxTransactions, random_value, nonce), <<>>)

EAddBlockFromNetwork(block_data) ==
    EngineStep("add_block_from_network", add_block_from_network(bc[1], block_data), block_data)

EReplaceChain(chain_data) ==
    EngineStep("replace_chain", replace_chain(bc[1], chain_data), chain_data)

\* rebuild_state; the argument recorded is how many times in a row it has run
ERebuildState ==
    EngineStep("rebuild_state", [bc |-> rebuild_state(bc[1]), ok |-> TRUE],
               IF ret.op = "rebuild_state" THEN ret.arg + 1 ELSE 1)

NextEngine ==
    \/ \E t \in EngineTransfers, a \in Amounts, k \in EngineKeys, now \in EngineTimes :
          EAddTransaction(t[1], t[2], a, k, GasFee, now)
    \/ \E tx \in RemoteTxs : EAddRemoteTransaction(tx)
    \/ \E r \in Draws(bc[1].validators) : EMineBlock(r, 1000)
    \/ \E b \in BlockCandidates(bc[1]) : EAddBlockFromNetwork(b)
    \/ \E c \in ChainCandidates(bc[1]) : EReplaceChain(c)
    \/ ERebuildState

SpecEngine == Init /\ [][NextEngine]_vars

(***************************************************************************)
(* Properties of the engine alone (SpecEngine).  A step of an engine        *)
(* operation counts in nOps and leaves its name, result and argument in     *)
(* ret; the engine before the step is bc[1], after it bc'[1].               *)
(***************************************************************************)
EngineCall(op) == nOps' # nOps /\ ret'.op = op

CountHash(pending, h) == Cardinality({i \in 1..Len(pending) : pending[i].tx_hash = h})

BalanceOf(e, a) == IF a \in DOMAIN e.accounts THEN e.accounts[a].balance ELSE 0

\* C1: on every node every non-genesis block of the chain has the hash computed
\* from its own fields and names the hash of the block before it
C1_ChainIntegrity ==
    \A n \in Nodes : \A i \in 2..Len(bc[n].blockchain) :
        /\ bc[n].blockchain[i].hash = BlockCalculateHash(bc[n].blockchain[i])
        /\ bc[n].blockchain[i].previous_hash = bc[n].blockchain[i - 1].hash

\* C2: replace_chain adopts a candidate only if it is strictly longer than the
\* chain and valid; a candidate that is not longer, or not valid, is refused and
\* the engine stays as it was
C2_ReplaceChainGuard ==
    [][EngineCall("replace_chain") =>
         LET candidate == ChainFromDict(ret'.arg)
             longer == Len(candidate) > Len(bc[1].blockchain)
         IN  /\ ret'.ok => /\ longer
                           /\ is_chain_valid(candidate)
                           /\ bc'[1].blockchain = candidate
             /\ (~longer \/ ~is_chain_valid(candidate)) => (~ret'.ok /\ bc'[1] = bc[1])]_vars

\* a longer chain that is not valid was refused
C2_Witness ==
    /\ ret.op = "replace_chain"
    /\ ~ret.ok
    /\ Len(ret.arg) > Len(bc[1].blockchain)
    /\ ~is_chain_valid(ChainFromDict(ret.arg))

\* C6: an engine operation that reports failure leaves the engine as it was
C6_FailureChangesNothing ==
    [][(nOps' # nOps /\ ~ret'.ok) => bc'[1] = bc[1]]_vars

\* C7: add_transaction by an unknown sender, or for more than the sender's
\* balance, fails and leaves the sender's balance and the mempool as they were
C7_InsufficientFunds ==
    [][EngineCall("add_transaction") =>
         LET sender == ret'.arg[1]
             total == FAdd(ret'.arg[3], ret'.arg[5])
             known == sender \in DOMAIN bc[1].accounts
         IN  (~known \/ total > BalanceOf(bc[1], sender)) =>
                /\ ~ret'.ok
                /\ bc'[1].pending_transactions = bc[1].pending_transactions
                /\ (sender \in DOMAIN bc'[1].accounts) = known
                /\ BalanceOf(bc'[1], sender) = BalanceOf(bc[1], sender)]_vars

\* a known sender asked for more than its balance and was refused
C7_Witness ==
    /\ ret.op = "add_transaction"
    /\ ~ret.ok
    /\ ret.arg[1] \in DOMAIN bc[1].accounts
    /\ FAdd(ret.arg[3], ret.arg[5]) > bc[1].accounts[ret.arg[1]].balance

\* C13: rebuild_state run a second time in succession leaves the set of accounts
\* and every balance as the first run left them
C13_RebuildIdempotent ==
    [][(EngineCall("rebuild_state") /\ ret.op = "rebuild_state") =>
          bc'[1].accounts = bc[1].accounts]_vars

\* rebuild_state ran twice in a row on a chain with a block that moves funds
C13_Witness ==
    /\ ret.op = "rebuild_state"
    /\ ret.arg = 2
    /\ \E i \in 2..Len(bc[1].blockchain) : bc[1].blockchain[i].transactions # <<>>

RoundTripTx(tx) == TxFromDict(TxToDict(tx))

RoundTripBlock(b) == BlockFromDict(BlockToDict(b))

\* C14: from_dict(to_dict(x)) has the fields of x for every block, transaction,
\* validator and account of the engine, and a block or transaction whose stored
\* hash is the digest of its fields (as of every one built locally) still has
\* it after the round trip
C14_RoundTrip ==
    LET e == bc[1]
    IN  /\ \A i \in 1..Len(e.blockchain) :
              LET b == e.blockchain[i]
              IN  /\ RoundTripBlock(b) = b
                  /\ b.hash = BlockCalculateHash(b) =>
                        RoundTripBlock(b).hash = BlockCalculateHash(RoundTripBlock(b))
                  /\ \A j \in 1..Len(b.transactions) :
                        RoundTripTx(b.transactions[j]) = b.transactions[j]
        /\ \A i \in 1..Len(e.pending_transactions) :
              LET tx == e.pending_transactions[i]
                  rt == RoundTripTx(tx)
              IN  /\ rt = tx
                  /\ rt.tx_hash = TxCalculateHash(rt.sender, rt.receiver, rt.amount, rt.timestamp)
        /\ \A i \in 1..Len(e.validators) :
              ValidatorFromDict(ValidatorToDict(e.validators[i])) = e.validators[i]
        /\ \A a \in DOMAIN e.accounts :
              AccountFromDict(AccountToDict(e.accounts[a])) = e.accounts[a]
        /\ (ret.op = "mine_block" /\ ret.ok) =>
              RoundTripBlock(Head_(e)).hash = BlockCalculateHash(RoundTripBlock(Head_(e)))

\* a block mined locally that holds a signed transaction
C14_Witness ==
    /\ ret.op = "mine_block"
    /\ ret.ok
    /\ Head_(bc[1]).transactions # <<>>
    /\ Head_(bc[1]).transactions[1].signature # NoSig

\* C16: add_transaction for a sender that carries a public key, with a private
\* key whose signature does not verify against it, fails and leaves the sender's
\* balance and the mempool as they were before the call
C16_SignatureRollback ==
    [][EngineCall("add_transaction") =>
         LET sender == ret'.arg[1]
             private_key == ret'.arg[4]
         IN  (/\ sender \in DOMAIN bc[1].accounts
              /\ bc[1].accounts[sender].public_key # NoKey
              /\ private_key # NoKey
              /\ private_key # PrivOf(bc[1].accounts[sender].public_key)) =>
                /\ ~ret'.ok
                /\ bc'[1].pending_transactions = bc[1].pending_transactions
                /\ bc'[1].accounts[sender].balance = bc[1].accounts[sender].balance]_vars

\* C8: add_remote_transaction of a hash that is in the mempool fails and changes
\* neither the mempool nor the sender's balance; of a hash that is not, it leaves
\* exactly one entry of that hash and one debit of amount + gas_fee
C8_RemoteDuplicate ==
    [][EngineCall("add_remote_transaction") =>
         LET tx == ret'.arg
         IN  IF tx.tx_hash \in HashSet(bc[1].pending_transactions)
             THEN /\ ~ret'.ok
                  /\ bc'[1].pending_transactions = bc[1].pending_transactions
                  /\ BalanceOf(bc'[1], tx.sender) = BalanceOf(bc[1], tx.sender)
             ELSE /\ ret'.ok
                  /\ CountHash(bc'[1].pending_transactions, tx.tx_hash) = 1
                  /\ BalanceOf(bc'[1], tx.sender) =
                        FSub(BalanceOf(bc[1], tx.sender), FAdd(tx.amount, tx.gas_fee))]_vars

\* the second call for a transaction of a sender only peers know: one entry, one debit
C8_Witness ==
    /\ ret.op = "add_remote_transaction"
    /\ ~ret.ok
    /\ ret.arg.sender = "X"
    /\ CountHash(bc[1].pending_transactions, ret.arg.tx_hash) = 1
    /\ bc[1].accounts["X"].balance = FSub(0, FAdd(ret.arg.amount, ret.arg.gas_fee))

\* C9: add_block_from_network accepts a block only if its number is the head's
\* plus one and its previous hash the head's hash; otherwise it fails and the
\* chain is as before
C9_OnlyExtensions ==
    [][EngineCall("add_block_from_network") =>
         LET block == ret'.arg
             head == Head_(bc[1])
             extends == block.number = head.number + 1 /\ block.previous_hash = head.hash
         IN  /\ ret'.ok => (extends /\ Len(bc'[1].blockchain) = Len(bc[1].blockchain) + 1
                                    /\ Head_(bc'[1]) = BlockFromDict(block))
             /\ ~extends => (~ret'.ok /\ bc'[1].blockchain = bc[1].blockchain)]_vars

\* a second, different block for the height of a head that came from a peer was refused
C9_Witness ==
    /\ ret.op = "add_block_from_network"
    /\ ~ret.ok
    /\ Len(bc[1].blockchain) >= 2
    /\ Head_(bc[1]).nonce # 1000
    /\ ret.arg.number = Head_(bc[1]).number
    /\ ret.arg.previous_hash = Head_(bc[1]).previous_hash
    /\ ret.arg.hash # Head_(bc[1]).hash

(***************************************************************************)
(* Properties of the network of nodes (Spec).  A step in which node n       *)
(* handles the message at the head of chan[c][n] is the step that takes it   *)
(* off the queue.                                                           *)
(***************************************************************************)
Handles(n, c, type) ==
    /\ Readable(n, c, type)
    /\ chan'[c][n] = Tail(chan[c][n])

\* connection c is established on both of its ends
Established(c) == <<c, c[1]>> \in readers /\ <<c, c[2]>> \in readers

\* nothing is in flight: every message sent was handled, every connection accepted
Quiescent ==
    /\ \A c \in Conns, n \in Nodes : chan[c][n] = <<>>
    /\ \A c \in Conns : <<c, c[1]>> \in readers => <<c, c[2]>> \in readers

\* C3: when nothing is in flight, two connected nodes hold the same chain
C3_Convergence ==
    Quiescent =>
        \A c \in Conns : Established(c) => bc[c[1]].blockchain = bc[c[2]].blockchain

\* C5: when a node accepts a block from the network, the sender of each of its
\* transactions has been debited amount + gas_fee exactly once on that node
C5_DebitedOnce ==
    [][\A n \in Nodes, c \in Conns :
          (Handles(n, c, "NEW_BLOCK")
             /\ Len(bc'[n].blockchain) = Len(bc[n].blockchain) + 1) =>
          \A i \in 1..Len(Head(chan[c][n]).block.transactions) :
              DebitCount(debits'[n], Head(chan[c][n]).block.transactions[i].tx_hash) = 1]_vars

\* C15: a CHAIN_RESPONSE with a longer chain makes chain, validators, accounts
\* and mempool those of the snapshot; one that is not longer leaves chain,
\* validators and accounts alone; the snapshot's pending transactions whose hash
\* the mempool does not hold are appended to it, each hash once
C15_ChainResponseFrame ==
    [][\A n \in Nodes, c \in Conns :
          Handles(n, c, "CHAIN_RESPONSE") =>
            LET data == Head(chan[c][n]).data
                snapshot == EngineFromDict(data)
                old == bc[n]
                new == bc'[n]
                unseen == HashSet(snapshot.pending_transactions) \ HashSet(old.pending_transactions)
            IN  IF Len(data.chain) > Len(old.blockchain)
                THEN /\ new.blockchain = snapshot.blockchain
                     /\ new.validators = snapshot.validators
                     /\ new.accounts = snapshot.accounts
                     /\ new.pending_transactions = snapshot.pending_transactions
                ELSE /\ new.blockchain = old.blockchain
                     /\ new.validators = old.validators
                     /\ new.accounts = old.accounts
                     /\ Len(new.pending_transactions) =
                           Len(old.pending_transactions) + Cardinality(unseen)
                     /\ SubSeq(new.pending_transactions, 1, Len(old.pending_transactions)) =
                           old.pending_transactions
                     /\ \A h \in unseen : CountHash(new.pending_transactions, h) = 1]_vars

\* a node took a pending transaction from a snapshot whose chain was not longer:
\* it holds the transaction, never debited, and its chain and accounts are as
\* they were when it started
C15_Witness ==
    \E n \in Nodes :
        /\ events[n] = 0
        /\ bc[n].blockchain = <<GenesisBlock>>
        /\ Len(bc[n].pending_transactions) = 1
        /\ DebitCount(debits[n], bc[n].pending_transactions[1].tx_hash) = 0
        /\ bc[n].accounts = NodeEngineInit(n).accounts

\* C20: the event callback of a node is called once in the step in which a
\* NEW_BLOCK or CHAIN_RESPONSE it handles makes its chain longer, and in no
\* other step: not for a rejected block, a snapshot that is not longer, or a
\* block the node mines
C20_EventOnGrowth ==
    [][\A n \in Nodes :
          events'[n] - events[n] =
            IF /\ \E c \in Conns : Handles(n, c, "NEW_BLOCK") \/ Handles(n, c, "CHAIN_RESPONSE")
               /\ Len(bc'[n].blockchain) > Len(bc[n].blockchain)
            THEN 1 ELSE 0]_vars

\* one node mined a block and its callback was not called; its peer took the
\* block from the network and was called once
C20_Witness ==
    \E n \in Nodes, m \in Nodes :
        /\ n # m
        /\ events[m] = 0
        /\ Len(bc[m].blockchain) = 2
        /\ events[n] = 1
        /\ bc[n].blockchain = bc[m].blockchain
        /\ nOps = MaxOps

\* C10: a NEW_BLOCK whose number is more than one above the head's is rejected
\* and answered by GET_CHAIN on the same connection; a CHAIN_RESPONSE with a
\* longer chain makes that chain the node's chain, its last block the head
C10_Resync ==
    [][\A n \in Nodes, c \in Conns :
          /\ (Handles(n, c, "NEW_BLOCK")
                /\ Head(chan[c][n]).block.number > Head_(bc[n]).number + 1) =>
                /\ bc'[n] = bc[n]
                /\ chan'[c][Other(c, n)] =
                      Append(chan[c][Other(c, n)], [type |-> "GET_CHAIN"])
          /\ (Handles(n, c, "CHAIN_RESPONSE")
                /\ Len(Head(chan[c][n]).data.chain) > Len(bc[n].blockchain)) =>
                /\ bc'[n].blockchain = ChainFromDict(Head(chan[c][n]).data.chain)
                /\ Head_(bc'[n]).number = Len(Head(chan[c][n]).data.chain) - 1]_vars

\* a node that never asked for a chain on connecting got a block two ahead of its
\* genesis head, and now holds the three blocks of the peer that mined them
C10_Witness ==
    \E n \in Nodes :
        /\ peers[n] = {}
        /\ events[n] = 1
        /\ Len(bc[n].blockchain) = 3
        /\ Head_(bc[n]).number = 2
        /\ \E m \in Nodes \ {n} : bc[n].blockchain = bc[m].blockchain

(***************************************************************************)
(* The threads of node 1, statement by statement (SpecConc).  Node 1 has    *)
(* both connections with node 2 established; thread 0 is the facade thread  *)
(* calling send_transaction, threads 1 and 2 are the handle_client loops of  *)
(* the two connections, handling NEW_TX.  No lock is taken anywhere in       *)
(* node.py or blockchain.py, so the threads interleave between statements.   *)
(***************************************************************************)
MaxConcOps == 3

ConnOf(t) == IF t = 1 THEN <<1, 2>> ELSE <<2, 1>>

InitConc ==
    /\ bc = [n \in Nodes |-> NodeEngineInit(n)]
    /\ peers = [n \in Nodes |-> Nodes \ {n}]
    /\ active = [n \in Nodes |-> Conns]
    /\ readers = {<<c, n>> : c \in Conns, n \in Nodes}
    /\ chan = [c \in Conns |-> [n \in Nodes |-> <<>>]]
    /\ events = [n \in Nodes |-> 0]
    /\ ret = NoRet
    /\ debits = [n \in Nodes |-> <<>>]
    /\ nOps = 0
    /\ pc = [t \in Threads |-> "idle"]
    /\ loc = [t \in Threads |-> <<>>]

Goto(t, label) == pc' = [pc EXCEPT ![t] = label]

Return(t) == pc' = [pc EXCEPT ![t] = "idle"] /\ loc' = [loc EXCEPT ![t] = <<>>]

\* the peer sends NEW_TX on connection c
PeerSendsTx(c, tx) ==
    /\ nOps < MaxConcOps
    /\ nOps' = nOps + 1
    /\ chan' = [chan EXCEPT ![c][1] = Append(@, [type |-> "NEW_TX", tx |-> TxToDict(tx)])]
    /\ UNCHANGED <<bc, peers, active, readers, events, ret, debits, pc, loc>>

\* handle_client / handle_message: the reader takes a NEW_TX off its connection
\* and calls add_remote_transaction
ReaderTakesTx(t) ==
    /\ t # 0
    /\ pc[t] = "idle"
    /\ Readable(1, ConnOf(t), "NEW_TX")
    /\ chan' = Taken(1, ConnOf(t))
    /\ loc' = [loc EXCEPT ![t] = [tx |-> TxFromDict(Head(chan[ConnOf(t)][1]).tx)]]
    /\ Goto(t, "art_sender")
    /\ UNCHANGED <<bc, peers, active, readers, events, ret, debits, nOps>>

\* add_remote_transaction, 1: create the sender if it is unknown
ArtSender(t) ==
    /\ pc[t] = "art_sender"
    /\ bc' = [bc EXCEPT ![1] = create_account(@, "UnknownSender", 0, loc[t].tx.sender, NoKey)]
    /\ Goto(t, "art_dup")
    /\ UNCHANGED <<peers, active, readers, chan, events, ret, debits, nOps, loc>>

\* add_remote_transaction, 2: return False if the hash is in the mempool
ArtDup(t) ==
    /\ pc[t] = "art_dup"
    /\ IF loc[t].tx.tx_hash \in HashSet(bc[1].pending_transactions)
       THEN Return(t)
       ELSE Goto(t, "art_debit") /\ UNCHANGED loc
    /\ UNCHANGED <<bc, peers, active, readers, chan, events, ret, debits, nOps>>

\* add_remote_transaction, 3: the speculative debit
ArtDebit(t) ==
    /\ pc[t] = "art_debit"
    /\ bc' = [bc EXCEPT ![1].accounts =
                 Debit(@, loc[t].tx.sender, FAdd(loc[t].tx.amount, loc[t].tx.gas_fee))]
    /\ debits' = [debits EXCEPT ![1] = AddDebit(@, loc[t].tx.tx_hash, 1)]
    /\ Goto(t, "art_append")
    /\ UNCHANGED <<peers, active, readers, chan, events, ret, nOps, loc>>

\* add_remote_transaction, 4: append to the mempool, return True
ArtAppend(t) ==
    /\ pc[t] = "art_append"
    /\ bc' = [bc EXCEPT ![1].pending_transactions = Append(@, loc[t].tx)]
    /\ Return(t)
    /\ UNCHANGED <<peers, active, readers, chan, events, ret, debits, nOps>>

\* the facade thread calls send_transaction, which calls add_transaction
FacadeSend(sender, receiver, amount, private_key, now) ==
    /\ pc[0] = "idle"
    /\ nOps < MaxConcOps
    /\ nOps' = nOps + 1
    /\ loc' = [loc EXCEPT ![0] = [sender |-> sender, receiver |-> receiver, amount |-> amount,
                                  private_key |-> private_key, now |-> now]]
    /\ Goto(0, "at_check")
    /\ UNCHANGED <<bc, peers, active, readers, chan, events, ret, debits>>

\* add_transaction, 1: return False for an unknown sender, create the receiver
AtCheck ==
    /\ pc[0] = "at_check"
    /\ IF loc[0].sender \notin DOMAIN bc[1].accounts
       THEN Return(0) /\ UNCHANGED bc
       ELSE /\ bc' = [bc EXCEPT ![1] = create_account(@, "Unknown", 0, loc[0].receiver, NoKey)]
            /\ Goto(0, "at_send")
            /\ UNCHANGED loc
    /\ UNCHANGED <<peers, active, readers, chan, events, ret, debits, nOps>>

\* add_transaction, 2: sender.send(...)
AtSend ==
    /\ pc[0] = "at_send"
    /\ LET sent == AccountSend(bc[1].accounts[loc[0].sender], loc[0].sender, loc[0].receiver,
                               loc[0].amount, loc[0].private_key, GasFee, loc[0].now)
       IN  IF sent.ok
           THEN /\ bc' = [bc EXCEPT ![1].accounts[loc[0].sender] = sent.acc]
                /\ debits' = [debits EXCEPT ![1] = AddDebit(@, sent.tx.tx_hash, 1)]
                /\ loc' = [loc EXCEPT ![0] = [tx |-> sent.tx, amount |-> loc[0].amount]]
                /\ Goto(0, "at_verify")
           ELSE Return(0) /\ UNCHANGED <<bc, debits>>
    /\ UNCHANGED <<peers, active, readers, chan, events, ret, nOps>>

\* add_transaction, 3: verify the signature (roll the debit back if it fails),
\* append to the mempool
AtVerify ==
    /\ pc[0] = "at_verify"
    /\ LET tx == loc[0].tx
           sender == bc[1].accounts[tx.sender]
       IN  IF sender.public_key # NoKey /\ ~verify_transaction(tx, sender.public_key)
           THEN /\ bc' = [bc EXCEPT ![1].accounts = Credit(@, tx.sender, FAdd(loc[0].amount, GasFee))]
                /\ debits' = [debits EXCEPT ![1] = AddDebit(@, tx.tx_hash, -1)]
                /\ Return(0)
           ELSE /\ bc' = [bc EXCEPT ![1].pending_transactions = Append(@, tx)]
                /\ Goto(0, "st_broadcast")
                /\ UNCHANGED <<debits, loc>>
    /\ UNCHANGED <<peers, active, readers, chan, events, ret, nOps>>

\* send_transaction: broadcast pending_transactions[-1] as NEW_TX
StBroadcast ==
    /\ pc[0] = "st_broadcast"
    /\ IF bc[1].pending_transactions = <<>>
       THEN UNCHANGED <<chan, ret>>
       ELSE /\ chan' = Broadcast(chan, 1, [type |-> "NEW_TX",
                                           tx |-> TxToDict(Last(bc[1].pending_transactions))])
            /\ ret' = [op |-> "send_transaction", node |-> 1, ok |-> TRUE,
                       arg |-> <<loc[0].tx, Last(bc[1].pending_transactions)>>]
    /\ Return(0)
    /\ UNCHANGED <<bc, peers, active, readers, events, debits, nOps>>

NextConc ==
    \/ \E c \in Conns, tx \in RemoteTxs : PeerSendsTx(c, tx)
    \/ \E t \in Threads : ReaderTakesTx(t)
    \/ \E t \in Threads : ArtSender(t)
    \/ \E t \in Threads : ArtDup(t)
    \/ \E t \in Threads : ArtDebit(t)
    \/ \E t \in Threads : ArtAppend(t)
    \/ \E k \in {NoKey, TreasuryPriv} : FacadeSend("T", "U", 100000, k, 1)
    \/ AtCheck
    \/ AtSend
    \/ AtVerify
    \/ StBroadcast

SpecConc == InitConc /\ [][NextConc]_vars

\* the threads of node 1 that are inside a ledger mutator
InMutator ==
    {t \in Threads : pc[t] \in {"art_sender", "art_dup", "art_debit", "art_append",
                                "at_check", "at_send", "at_verify"}}

\* C4: at most one thread of a node is inside a ledger mutator at any time
C4_MutualExclusion == Cardinality(InMutator) <= 1

(***************************************************************************)
(* The validator set (SpecValidators): an engine constructed on its own,    *)
(* ProofOfStakeBlockchain(), to which validators are added locally and from *)
(* the network, and on which select_validator and mine_block are called.    *)
(***************************************************************************)
MaxValidatorOps == 4

InitValidators ==
    /\ bc = [n \in Nodes |-> EngineInit]
    /\ peers = [n \in Nodes |-> {}]
    /\ active = [n \in Nodes |-> {}]
    /\ readers = {}
    /\ chan = [c \in Conns |-> [n \in Nodes |-> <<>>]]
    /\ events = [n \in Nodes |-> 0]
    /\ ret = NoRet
    /\ debits = [n \in Nodes |-> <<>>]
    /\ nOps = 0
    /\ pc = [t \in Threads |-> "idle"]
    /\ loc = [t \in Threads |-> <<>>]

\* the stake a peer announces for a validator name
AnnouncedStake(name) ==
    CASE name = "A" -> 10
      [] name = "B" -> 20
      [] name = "C" -> 70
      [] OTHER -> 0

\* the NEW_VALIDATOR data a peer may send: active and inactive validators, and
\* an active one without stake
ValidatorAnnouncements ==
    {[name |-> name, stake |-> AnnouncedStake(name), reward_address |-> "U",
      blocks_proposed |-> 0, total_rewards |-> 0, is_active |-> a] :
        name \in {"A", "B", "C"}, a \in BOOLEAN}
    \cup {[name |-> "Z", stake |-> AnnouncedStake("Z"), reward_address |-> "U",
            blocks_proposed |-> 0, total_rewards |-> 0, is_active |-> TRUE]}

\* the address create_account draws for the wallet of a validator
WalletAddr(name) == IF name = "A" THEN "wA" ELSE "wD"

\* the draws of random.uniform(0, total_stake) tried for select_validator: the
\* ends, and values at and around the accumulated stakes
SelectDraws(validators) ==
    {r \in {0, 5, 10, 11, 15, 30, 31, 100} : r <= get_total_stake(validators)}
        \cup {get_total_stake(validators)}

ValidatorStep(op, r, arg) ==
    /\ nOps < MaxValidatorOps
    /\ nOps' = nOps + 1
    /\ bc' = [bc EXCEPT ![1] = r.bc]
    /\ ret' = [op |-> op, node |-> 1, ok |-> r.ok, arg |-> arg]
    /\ UNCHANGED <<pc, loc, peers, active, readers, chan, events, debits>>

VAddValidator(name, stake, reward_address) ==
    ValidatorStep("add_validator",
                  add_validator(bc[1], name, stake, reward_address, WalletAddr(name)),
                  <<name, stake, reward_address, WalletAddr(name)>>)

VAddValidatorFromNetwork(val_data) ==
    ValidatorStep("add_validator_from_network",
                  add_validator_from_network(bc[1], val_data), val_data)

VAddRemoteTransaction(tx) ==
    ValidatorStep("add_remote_transaction", add_remote_transaction(bc[1], tx), tx)

\* select_validator with the draw random_value; the argument recorded is the
\* draw and the position of the validator returned (0: None)
VSelectValidator(random_value) ==
    LET sel == select_validator(bc[1].validators, random_value)
    IN  ValidatorStep("select_validator", [bc |-> bc[1], ok |-> sel # 0],
                      <<random_value, sel>>)

\* mine_block; the argument recorded is the draw and the position of the
\* validator select_validator returns for it
VMineBlock(random_value, nonce) ==
    ValidatorStep("mine_block", mine_block(bc[1], MaxTransactions, random_value, nonce),
                  <<random_value, select_validator(bc[1].validators, random_value)>>)

NextValidators ==
    \/ \E name \in {"A", "D"}, stake \in {MinStake - 1, MinStake}, addr \in {NoAddr, "U"} :
          VAddValidator(name, stake, addr)
    \/ \E d \in ValidatorAnnouncements : VAddValidatorFromNetwork(d)
    \/ VAddRemoteTransaction(NewTransaction("X", "U", 5, GasFee, 1))
    \/ \E r \in SelectDraws(bc[1].validators) : VSelectValidator(r)
    \/ \E r \in Draws(bc[1].validators) : VMineBlock(r, 1000)

SpecValidators == InitValidators /\ [][NextValidators]_vars

\* the stake of the active validators up to list position i
CumulativeStake(validators, i) ==
    SumStake(validators, {j \in ActiveIndexes(validators) : j <= i})

Stakes(validators) == [i \in 1..Len(validators) |-> validators[i].stake]

\* C11: after mine_block succeeds the selected validator has proposed one block
\* more and earned base_reward + the gas fees of the block's transactions more;
\* every other validator is as before
C11_ValidatorCounters ==
    [][(EngineCall("mine_block") /\ ret'.ok) =>
         LET sel == ret'.arg[2]
             old == bc[1].validators
             new == bc'[1].validators
             block == Head_(bc'[1])
         IN  /\ Len(new) = Len(old)
             /\ block.validator = old[sel].name
             /\ new[sel].blocks_proposed = old[sel].blocks_proposed + 1
             /\ new[sel].total_rewards =
                   FAdd(old[sel].total_rewards, FAdd(BaseReward, SumFees(block.transactions)))
             /\ \A i \in 1..Len(old) : i # sel => new[i] = old[i]]_vars

\* the second of several validators mined a block with a transaction that pays a fee
C11_Witness ==
    /\ ret.op = "mine_block"
    /\ ret.ok
    /\ ret.arg[2] = 2
    /\ Head_(bc[1]).transactions # <<>>
    /\ bc[1].validators[2].total_rewards = BaseReward + GasFee
    /\ bc[1].validators[1].blocks_proposed = 0

\* C12: select_validator returns the first active validator, in list order,
\* whose accumulated active stake reaches the draw, and None when no validator
\* is active; with stakes 10, 20, 70 the draws 5, 15, 100 give the first, the
\* second, the third
C12_SelectValidator ==
    [][EngineCall("select_validator") =>
         LET validators == bc[1].validators
             r == ret'.arg[1]
             sel == ret'.arg[2]
             act == ActiveIndexes(validators)
         IN  /\ act = {} => sel = 0
             /\ act # {} =>
                   /\ sel \in act
                   /\ CumulativeStake(validators, sel) >= r
                   /\ \A j \in act : j < sel => CumulativeStake(validators, j) < r
             /\ (Stakes(validators) = <<10, 20, 70>> /\ act = {1, 2, 3}) =>
                   /\ r = 5 => sel = 1
                   /\ r = 15 => sel = 2
                   /\ r = 100 => sel = 3]_vars

\* the draw 15 on active stakes 10, 20, 70 selected the second validator
C12_Witness ==
    /\ ret.op = "select_validator"
    /\ Stakes(bc[1].validators) = <<10, 20, 70>>
    /\ ActiveIndexes(bc[1].validators) = {1, 2, 3}
    /\ ret.arg = <<15, 2>>

\* C17: add_validator with a stake below 32 or a name already in the list fails
\* and leaves validators and accounts as they were; otherwise it appends one
\* validator and, given no reward address, makes a new account of balance 0 its
\* reward address
C17_AddValidator ==
    [][EngineCall("add_validator") =>
         LET name == ret'.arg[1]
             stake == ret'.arg[2]
             reward_address == ret'.arg[3]
             old == bc[1]
             new == bc'[1]
         IN  IF stake < MinStake \/ HasName(old.validators, name)
             THEN /\ ~ret'.ok
                  /\ new.validators = old.validators
                  /\ new.accounts = old.accounts
             ELSE /\ ret'.ok
                  /\ Len(new.validators) = Len(old.validators) + 1
                  /\ SubSeq(new.validators, 1, Len(old.validators)) = old.validators
                  /\ Last(new.validators).name = name
                  /\ Last(new.validators).stake = stake
                  /\ IF reward_address = NoAddr
                     THEN LET addr == Last(new.validators).reward_address
                          IN  /\ DOMAIN new.accounts = DOMAIN old.accounts \cup {addr}
                              /\ addr \notin DOMAIN old.accounts
                              /\ new.accounts[addr].balance = 0
                              /\ \A a \in DOMAIN old.accounts : new.accounts[a] = old.accounts[a]
                     ELSE /\ Last(new.validators).reward_address = reward_address
                          /\ new.accounts = old.accounts]_vars

\* a validator that got a wallet of its own was added; adding its name again,
\* with enough stake, was refused
C17_Witness ==
    /\ ret.op = "add_validator"
    /\ ~ret.ok
    /\ ret.arg[2] >= MinStake
    /\ \E i \in 1..Len(bc[1].validators) :
          /\ bc[1].validators[i].name = ret.arg[1]
          /\ bc[1].validators[i].reward_address = ret.arg[4]
          /\ bc[1].accounts[ret.arg[4]].balance = 0

(***************************************************************************)
(* The facade (SpecFacade): the network of Spec in which send_transaction,  *)
(* mine and create_validator are called with arguments that make the ledger *)
(* operation succeed and with arguments that make it fail; ret records the  *)
(* facade call made last.                                                   *)
(***************************************************************************)
MaxFacadeOps == 2

FacadeStep(op, n, ok) ==
    /\ nOps < MaxFacadeOps
    /\ nOps' = nOps + 1
    /\ ret' = [op |-> op, node |-> n, ok |-> ok, arg |-> <<>>]

FSendTransaction(n, sender, receiver, amount, private_key, now) ==
    /\ FacadeStep("send_transaction", n,
                  add_transaction(bc[n], sender, receiver, amount, private_key, GasFee, now).ok)
    /\ SendTransactionStep(n, sender, receiver, amount, private_key, now)

FMine(n, random_value, nonce) ==
    /\ FacadeStep("mine", n, mine_block(bc[n], MaxTransactions, random_value, nonce).ok)
    /\ MineStep(n, random_value, nonce)

FCreateValidator(n, name, stake, reward_address) ==
    /\ FacadeStep("create_validator", n,
                  add_validator(bc[n], name, stake, reward_address, ValidatorWallet(n)).ok)
    /\ CreateValidatorStep(n, name, stake, reward_address)

NextFacade ==
    \/ \E n \in Nodes, m \in Nodes : ConnectToPeer(n, m)
    \/ \E c \in Conns : Accept(c)
    \/ \E n \in Nodes, c \in Conns : HandleHandshake(n, c)
    \/ \E n \in Nodes, c \in Conns : HandleGetChain(n, c)
    \/ \E n \in Nodes, c \in Conns : HandleChainResponse(n, c)
    \/ \E n \in Nodes, c \in Conns : HandleNewBlock(n, c)
    \/ \E n \in Nodes, c \in Conns : HandleNewTx(n, c)
    \/ \E n \in Nodes, c \in Conns : HandleNewValidator(n, c)
    \/ \E n \in Nodes, k \in {NoKey, TreasuryPriv} : FSendTransaction(n, "T", "U", 100000, k, 1)
    \/ \E n \in Nodes : FMine(n, 0, 1000)
    \/ \E n \in Nodes, name \in {"Genesis_Validator", "V"} :
          FCreateValidator(n, name, MinStake, "U")

SpecFacade == Init /\ [][NextFacade]_vars

\* the type of the message a facade operation broadcasts
BroadcastType(op) ==
    CASE op = "send_transaction" -> "NEW_TX"
      [] op = "mine" -> "NEW_BLOCK"
      [] OTHER -> "NEW_VALIDATOR"

\* C19: a facade operation whose ledger operation succeeds puts one message of
\* its type on every live connection of the node and on no other; one whose
\* ledger operation fails sends nothing
C19_BroadcastOnSuccess ==
    [][nOps' # nOps =>
         LET n == ret'.node
         IN  \A c \in Conns, m \in Nodes :
                IF ret'.ok /\ c \in active[n] /\ m = Other(c, n)
                THEN /\ Len(chan'[c][m]) = Len(chan[c][m]) + 1
                     /\ SubSeq(chan'[c][m], 1, Len(chan[c][m])) = chan[c][m]
                     /\ Last(chan'[c][m]).type = BroadcastType(ret'.op)
                ELSE chan'[c][m] = chan[c][m]]_vars

\* a node with two live connections announced a validator on both, and then a
\* send_transaction of it failed
C19_Witness ==
    \E n \in Nodes :
        /\ Cardinality(active[n]) = 2
        /\ \A c \in active[n] :
              \E i \in 1..Len(chan[c][Other(c, n)]) :
                  chan[c][Other(c, n)][i].type = "NEW_VALIDATOR"
        /\ ret.op = "send_transaction"
        /\ ret.node = n
        /\ ~ret.ok

(***************************************************************************)
(* Node.handle_client with any line on the wire: the network of Spec, and  *)
(* peers that also write lines no node would send.                         *)
(***************************************************************************)
MaxWireOps == 2

\* what a line is when it is not a message: text json.loads rejects, a JSON
\* value that is not an object, an object without a type
NotJson == "<not JSON>"
NotObject == "<not an object>"
NoType == "<no type>"

\* the lines that reach no branch of handle_message
OtherTypes == {NotJson, NotObject, NoType, "PING"}

\* the lines a peer may write to node n
WireLines(n) ==
    LET head == Head_(bc[n])
        next == BlockToDict(ExtBlock(head, <<>>, 1))
        tx == TxToDict(NewTransaction("X", "U", 5, GasFee, 1))
    IN  {[type |-> t] : t \in OtherTypes}
          \cup {[type |-> "NEW_BLOCK", block |-> next],
                [type |-> "NEW_BLOCK", block |-> [transactions |-> <<>>]],
                [type |-> "NEW_TX", tx |-> tx],
                [type |-> "NEW_TX", tx |-> [sender |-> "X"]],
                [type |-> "NEW_VALIDATOR", data |-> [name |-> "V"]],
                [type |-> "CHAIN_RESPONSE",
                 data |-> [chain |-> ChainToDict(bc[n].blockchain) \o <<next>>]]}

\* the peer at the other end of connection c writes a line to node n
PeerWrites(n, c, line) ==
    /\ nOps < MaxWireOps
    /\ <<c, n>> \in readers
    /\ chan' = [chan EXCEPT ![c][n] = Append(@, line)]
    /\ nOps' = nOps + 1
    /\ UNCHANGED <<pc, loc, ret, bc, peers, active, readers, events, debits>>

\* handle_client on a line that is no message of the protocol: JSONDecodeError
\* is caught in the loop; msg.get on a value that is not an object raises
\* AttributeError, which ends the loop; an object of another type or of none
\* reaches no branch
HandleOtherLine(n, c) ==
    /\ <<c, n>> \in readers
    /\ chan[c][n] # <<>>
    /\ Head(chan[c][n]).type \in OtherTypes
    /\ LET raises == Head(chan[c][n]).type = NotObject
       IN  /\ readers' = ReadersAfter(n, c, raises)
           /\ active' = ActiveAfter(n, c, raises)
    /\ chan' = Taken(n, c)
    /\ UNCHANGED <<pc, loc, ret, bc, peers, events, debits, nOps>>

NextWire ==
    \/ \E n \in Nodes, m \in Nodes : ConnectToPeer(n, m)
    \/ \E c \in Conns : Accept(c)
    \/ \E n \in Nodes, c \in Conns : HandleHandshake(n, c)
    \/ \E n \in Nodes, c \in Conns : HandleGetChain(n, c)
    \/ \E n \in Nodes, c \in Conns : HandleChainResponse(n, c)
    \/ \E n \in Nodes, c \in Conns : HandleNewBlock(n, c)
    \/ \E n \in Nodes, c \in Conns : HandleNewTx(n, c)
    \/ \E n \in Nodes, c \in Conns : HandleNewValidator(n, c)
    \/ \E n \in Nodes, c \in Conns : HandleOtherLine(n, c)
    \/ \E n \in Nodes, c \in Conns : \E line \in WireLines(n) : PeerWrites(n, c, line)

SpecWire == Init /\ [][NextWire]_vars

\* a line that is a bad message: no JSON, no object, no type or an unknown
\* one, or a known type with a payload its from_dict rejects
BadLine(n, line) ==
    \/ line.type \in OtherTypes
    \/ line.type = "NEW_BLOCK" /\ ~BlockDataOk(line.block)
    \/ line.type = "NEW_TX" /\ ~TxDataOk(line.tx)
    \/ line.type = "NEW_VALIDATOR" /\ ~ValidatorDataOk(line.data)
    \/ line.type = "CHAIN_RESPONSE" /\ ~EngineDataOk(line.data)

\* C18: the reader of a connection that takes a bad line is still running after
\* it and the connection is still in the live set of its node
C18_BadMessageSkipped ==
    [][\A n \in Nodes, c \in Conns :
          (/\ <<c, n>> \in readers
           /\ chan[c][n] # <<>>
           /\ chan'[c][n] = Tail(chan[c][n])
           /\ BadLine(n, Head(chan[c][n]))) =>
             /\ <<c, n>> \in readers'
             /\ c \in active'[n]]_vars


(***************************************************************************)
(* Balances, chain history and the mempool on the nodes of the network      *)
(* (Spec).                                                                  *)
(***************************************************************************)
\* the sum of amount + gas_fee over the mempool transactions that address a sent
RECURSIVE PendingDebits(_, _)
PendingDebits(pending, a) ==
    IF pending = <<>> THEN 0
    ELSE LET tx == pending[Len(pending)]
             rest == PendingDebits(SubSeq(pending, 1, Len(pending) - 1), a)
         IN  IF tx.sender = a THEN FAdd(rest, FAdd(tx.amount, tx.gas_fee)) ELSE rest

\* the balance of address a that replaying the chain of engine e from genesis gives
ReplayedBalance(e, a) == BalanceOf(rebuild_state(e), a)

\* C21: on every node the balance of every account is the balance the replay of
\* the node's chain from genesis gives it, less amount + gas_fee of every mempool
\* transaction the account sent
C21_BalancesFollowHistory ==
    \A n \in Nodes : \A a \in DOMAIN bc[n].accounts :
        bc[n].accounts[a].balance =
            FSub(ReplayedBalance(bc[n], a), PendingDebits(bc[n].pending_transactions, a))


\* the transactions of the blocks of a chain, in chain order
RECURSIVE ChainTxs(_)
ChainTxs(chain) ==
    IF chain = <<>> THEN <<>> ELSE Head(chain).transactions \o ChainTxs(Tail(chain))

\* C22: on every node each transaction hash occurs at most once in the chain,
\* and no transaction of the chain is in the mempool
C22_IncludedOnce ==
    \A n \in Nodes :
        LET included == ChainTxs(bc[n].blockchain)
        IN  /\ \A h \in HashSet(included) : CountHash(included, h) = 1
            /\ HashSet(bc[n].pending_transactions) \cap HashSet(included) = {}


\* C23: two nodes that hold the same chain and empty mempools give every address
\* the same balance
C23_SameChainSameBalances ==
    \A n \in Nodes, m \in Nodes :
        (/\ bc[n].blockchain = bc[m].blockchain
         /\ bc[n].pending_transactions = <<>>
         /\ bc[m].pending_transactions = <<>>) =>
            \A a \in DOMAIN bc[n].accounts \cup DOMAIN bc[m].accounts :
                BalanceOf(bc[n], a) = BalanceOf(bc[m], a)


(***************************************************************************)
(* Reader threads handling the same NEW_TX (SpecConc).                      *)
(***************************************************************************)
\* the transfer only peers send: the facade thread of node 1 never submits it
PeerTx == NewTransaction("X", "U", 5, GasFee, 1)

\* C24: once the reader threads of node 1 have handled every NEW_TX of the same
\* transaction, however they interleaved, the mempool holds one entry of its
\* hash and its sender was debited amount + gas_fee once
C24_ConcurrentNewTx ==
    (/\ \A t \in Threads : pc[t] = "idle"
     /\ PeerTx.tx_hash \in HashSet(bc[1].pending_transactions)) =>
        /\ CountHash(bc[1].pending_transactions, PeerTx.tx_hash) = 1
        /\ DebitCount(debits[1], PeerTx.tx_hash) = 1
        /\ bc[1].accounts["X"].balance = FSub(0, FAdd(PeerTx.amount, PeerTx.gas_fee))


(***************************************************************************)
(* The threads of node 1 that change its chain (SpecSync).  Node 1 has both *)
(* connections with node 2 established; threads 1 and 2 are the             *)
(* handle_client loops of the two connections, handling CHAIN_RESPONSE      *)
(* statement by statement and NEW_BLOCK, and thread 0 is the facade thread   *)
(* calling mine.  The peer has mined blocks of its own and sends its         *)
(* snapshots and blocks.                                                    *)
(***************************************************************************)
MaxSyncOps == 3

\* the longest chain the peer gets to, in blocks after genesis
PeerHeight == 2

\* the engine of node 2 after it mined k blocks
RECURSIVE PeerEngine(_)
PeerEngine(k) ==
    IF k = 0 THEN NodeEngineInit(2)
    ELSE mine_block(PeerEngine(k - 1), MaxTransactions, 0, 1001).bc

\* the peer sends the snapshot of its engine at height k on connection c
PeerSendsChain(c, k) ==
    /\ nOps < MaxSyncOps
    /\ nOps' = nOps + 1
    /\ chan' = [chan EXCEPT ![c][1] =
                  Append(@, [type |-> "CHAIN_RESPONSE", data |-> EngineToDict(PeerEngine(k)),
                             debits |-> <<>>])]
    /\ UNCHANGED <<bc, peers, active, readers, events, ret, debits, pc, loc>>

\* the peer sends the block it mined at height k on connection c
PeerSendsBlock(c, k) ==
    /\ nOps < MaxSyncOps
    /\ nOps' = nOps + 1
    /\ chan' = [chan EXCEPT ![c][1] =
                  Append(@, [type |-> "NEW_BLOCK", block |-> BlockToDict(Head_(PeerEngine(k)))])]
    /\ UNCHANGED <<bc, peers, active, readers, events, ret, debits, pc, loc>>

\* handle_client: the reader takes a CHAIN_RESPONSE off its connection
CrTake(t) ==
    /\ t # 0
    /\ pc[t] = "idle"
    /\ Readable(1, ConnOf(t), "CHAIN_RESPONSE")
    /\ chan' = Taken(1, ConnOf(t))
    /\ loc' = [loc EXCEPT ![t] = Head(chan[ConnOf(t)][1])]
    /\ Goto(t, "cr_check")
    /\ UNCHANGED <<bc, peers, active, readers, events, ret, debits, nOps>>

\* CHAIN_RESPONSE, 1: is the chain received longer than the chain of the node
CrCheck(t) ==
    /\ pc[t] = "cr_check"
    /\ IF ChainIsLonger(bc[1], loc[t].data) THEN Goto(t, "cr_replace") ELSE Goto(t, "cr_merge")
    /\ UNCHANGED <<bc, peers, active, readers, chan, events, ret, debits, nOps, loc>>

\* CHAIN_RESPONSE, 2: self.blockchain = from_dict(data), then the event
CrReplace(t) ==
    /\ pc[t] = "cr_replace"
    /\ bc' = [bc EXCEPT ![1] = EngineFromDict(loc[t].data)]
    /\ events' = trigger_event(events, 1)
    /\ debits' = [debits EXCEPT ![1] = loc[t].debits]
    /\ Goto(t, "cr_merge")
    /\ UNCHANGED <<peers, active, readers, chan, ret, nOps, loc>>

\* CHAIN_RESPONSE, 3: the mempool sync
CrMerge(t) ==
    /\ pc[t] = "cr_merge"
    /\ bc' = [bc EXCEPT ![1].pending_transactions = MergePending(@, PendingTxs(loc[t].data))]
    /\ Return(t)
    /\ UNCHANGED <<peers, active, readers, chan, events, ret, debits, nOps>>

\* handle_client: the reader takes a NEW_BLOCK off its connection and handles it
NbHandle(t) ==
    /\ t # 0
    /\ pc[t] = "idle"
    /\ HandleNewBlock(1, ConnOf(t))

\* the facade thread calls mine
FacadeMine(random_value, nonce) ==
    /\ pc[0] = "idle"
    /\ nOps < MaxSyncOps
    /\ nOps' = nOps + 1
    /\ MineStep(1, random_value, nonce)
    /\ UNCHANGED ret

NextSync ==
    \/ \E c \in Conns, k \in 1..PeerHeight : PeerSendsChain(c, k)
    \/ \E c \in Conns, k \in 1..PeerHeight : PeerSendsBlock(c, k)
    \/ \E t \in Threads : CrTake(t)
    \/ \E t \in Threads : CrCheck(t)
    \/ \E t \in Threads : CrReplace(t)
    \/ \E t \in Threads : CrMerge(t)
    \/ \E t \in Threads : NbHandle(t)
    \/ \E r \in Draws(bc[1].validators) : FacadeMine(r, 1000)

SpecSync == InitConc /\ [][NextSync]_vars

\* C25: every step leaves the chain of a node as it was, appends one block to
\* it, or replaces it by a strictly longer chain
C25_ChainOnlyGrows ==
    [][\A n \in Nodes :
          LET old == bc[n].blockchain
              new == bc'[n].blockchain
          IN  \/ new = old
              \/ Len(new) = Len(old) + 1 /\ SubSeq(new, 1, Len(old)) = old
              \/ Len(new) > Len(old)]_vars


(***************************************************************************)
(* Adoption of chains (SpecAdopt): the engine of node 1 on which mine_block, *)
(* add_block_from_network and replace_chain are called and which takes       *)
(* CHAIN_RESPONSE snapshots, the blocks and chains being any that pass the   *)
(* checks the code makes.                                                   *)
(***************************************************************************)
MaxAdoptOps == 3

\* a block on top of block prev whose number skips one
SkipBlock(prev, nonce) ==
    NewBlock(prev.number + 2, <<>>, "Genesis_Validator", prev.hash, nonce)

\* chains a peer may offer to engine e: its chain with one more block, numbered
\* next or skipping a number, and its chain as it is
OfferedChains(e) ==
    {Append(e.blockchain, ExtBlock(Head_(e), <<>>, 1)),
     Append(e.blockchain, SkipBlock(Head_(e), 1)),
     e.blockchain}

\* the snapshot of a peer that has the accounts and validators of e and chain c
SnapshotWith(e, c) == [EngineToDict(e) EXCEPT !.chain = ChainToDict(c)]

AdoptStep(op, r, arg) ==
    /\ nOps < MaxAdoptOps
    /\ nOps' = nOps + 1
    /\ bc' = [bc EXCEPT ![1] = r.bc]
    /\ ret' = [op |-> op, node |-> 1, ok |-> r.ok, arg |-> arg]
    /\ UNCHANGED <<pc, loc, peers, active, readers, chan, events, debits>>

AMineBlock(random_value, nonce) ==
    AdoptStep("mine_block", mine_block(bc[1], MaxTransactions, random_value, nonce), <<>>)

AAddBlockFromNetwork(block_data) ==
    AdoptStep("add_block_from_network", add_block_from_network(bc[1], block_data), block_data)

AReplaceChain(chain_data) ==
    AdoptStep("replace_chain", replace_chain(bc[1], chain_data), chain_data)

\* handle_message, CHAIN_RESPONSE, for a snapshot with every key
AChainResponse(data) ==
    AdoptStep("chain_response",
              [bc |-> ChainResponse(bc[1], data), ok |-> ChainIsLonger(bc[1], data)], data)

NextAdopt ==
    \/ \E r \in Draws(bc[1].validators), nonce \in {1000, 1001} : AMineBlock(r, nonce)
    \/ \E b \in {ExtBlock(Head_(bc[1]), <<>>, 1), SkipBlock(Head_(bc[1]), 1)} :
          AAddBlockFromNetwork(BlockToDict(b))
    \/ \E c \in OfferedChains(bc[1]) : AReplaceChain(ChainToDict(c))
    \/ \E c \in OfferedChains(bc[1]) : AChainResponse(SnapshotWith(bc[1], c))

SpecAdopt == Init /\ [][NextAdopt]_vars

\* C27: on every node the block at index i of the chain has number i
C27_NumbersGapFree ==
    \A n \in Nodes : \A i \in 1..Len(bc[n].blockchain) : bc[n].blockchain[i].number = i - 1

\* C26: on every node current_block_number is the length of the chain less one
C26_BlockNumberIsHeight ==
    \A n \in Nodes : bc[n].current_block_number = Len(bc[n].blockchain) - 1


\* C28: the mempool of a node never holds two transactions of the same hash
C28_MempoolHashesUnique ==
    \A n \in Nodes :
        \A h \in HashSet(bc[n].pending_transactions) :
            CountHash(bc[n].pending_transactions, h) = 1


(***************************************************************************)
(* Transactions from peers (SpecRemote): the engine of node 1 taking the    *)
(* NEW_TX, NEW_BLOCK and CHAIN_RESPONSE messages of a peer that builds the   *)
(* transactions in them as it likes.                                        *)
(***************************************************************************)
\* the faucet transfer signed by the treasury
SignedTx == sign_transaction(NewTransaction("T", "U", 100000, GasFee, 1), TreasuryPriv)

\* a transfer of the treasury that nobody signed
UnsignedTx == NewTransaction("T", "U", 100000, GasFee, 2)

\* a transfer of the treasury signed with the key of another account
WrongKeyTx == sign_transaction(NewTransaction("T", "U", 100000, GasFee, 3), "Upriv")

\* the faucet transfer with amount and receiver altered after hashing and signing
TamperedTx == [SignedTx EXCEPT !.amount = 200000, !.receiver = "X"]

PeerTxs == {SignedTx, UnsignedTx, WrongKeyTx, TamperedTx}

\* handle_message, NEW_TX
RNewTx(tx_data) ==
    AdoptStep("new_tx",
              IF TxDataOk(tx_data) THEN add_remote_transaction(bc[1], TxFromDict(tx_data))
              ELSE [bc |-> bc[1], ok |-> FALSE],
              tx_data)

\* handle_message, NEW_BLOCK
RNewBlock(block_data) ==
    AdoptStep("new_block", add_block_from_network(bc[1], block_data), block_data)

\* handle_message, CHAIN_RESPONSE
RChainResponse(data) ==
    AdoptStep("chain_response",
              [bc |-> ChainResponse(bc[1], data), ok |-> ChainIsLonger(bc[1], data)], data)

RMineBlock(random_value, nonce) ==
    AdoptStep("mine_block", mine_block(bc[1], MaxTransactions, random_value, nonce), <<>>)

RRebuildState ==
    AdoptStep("rebuild_state", [bc |-> rebuild_state(bc[1]), ok |-> TRUE], <<>>)

NextRemote ==
    \/ \E tx \in PeerTxs : RNewTx(TxToDict(tx))
    \/ \E tx \in {SignedTx, TamperedTx} :
          RNewBlock(BlockToDict(ExtBlock(Head_(bc[1]), <<tx>>, 1)))
    \/ \E tx \in {SignedTx, TamperedTx} :
          \/ RChainResponse(SnapshotWith(bc[1],
                Append(bc[1].blockchain, ExtBlock(Head_(bc[1]), <<tx>>, 1))))
          \/ RChainResponse([EngineToDict(bc[1]) EXCEPT !.pending_txs = <<TxToDict(tx)>>])
    \/ \E r \in Draws(bc[1].validators) : RMineBlock(r, 1000)
    \/ RRebuildState

SpecRemote == Init /\ [][NextRemote]_vars

\* C29: a transaction taken from NEW_TX whose sender has a stored public key
\* carries a signature over its hash that verifies against that key
C29_RemoteSignatureChecked ==
    (ret.op = "new_tx" /\ ret.ok) =>
        LET tx == TxFromDict(ret.arg)
            key == bc[ret.node].accounts[tx.sender].public_key
        IN  key # NoKey => verify_transaction(tx, key)

HeldTxs(e) == e.pending_transactions \o ChainTxs(e.blockchain)

\* C30: the tx_hash of every transaction in the mempool or in a block of the
\* chain is the digest of its sender, receiver, amount and timestamp
C30_HashMatchesContent ==
    \A n \in Nodes :
        \A i \in 1..Len(HeldTxs(bc[n])) :
            LET tx == HeldTxs(bc[n])[i]
            IN  tx.tx_hash = TxCalculateHash(tx.sender, tx.receiver, tx.amount, tx.timestamp)

(***************************************************************************)
(* Local operations (SpecLocal): the engine of node 1 on which only         *)
(* create_account, add_transaction and mine_block are called.               *)
(***************************************************************************)
MaxLocalOps == 3

\* what is submitted: the treasury and the node's keyless account send to an
\* address not yet known and to each other, within or beyond their balance
LocalSenders == {"T", NodeTreasuryAddr(1)}
LocalReceivers == {"U", "T"}
LocalAmounts == {100000, 2000000}
LocalTimes == {1, 2}
LocalMaxTx == {1, MaxTransactions}

LocalStep(op, r, arg) ==
    /\ nOps < MaxLocalOps
    /\ nOps' = nOps + 1
    /\ bc' = [bc EXCEPT ![1] = r.bc]
    /\ ret' = [op |-> op, node |-> 1, ok |-> r.ok, arg |-> arg]
    /\ UNCHANGED <<pc, loc, peers, active, readers, chan, events, debits>>

LCreateAccount(name, address) ==
    LocalStep("create_account", [bc |-> create_account(bc[1], name, 0, address, NoKey), ok |-> TRUE],
              <<name, address>>)

LAddTransaction(sender, receiver, amount, private_key, gas_fee, now) ==
    LocalStep("add_transaction",
              add_transaction(bc[1], sender, receiver, amount, private_key, gas_fee, now),
              <<sender, receiver, amount, private_key, gas_fee, now>>)

LMineBlock(max_transactions, random_value, nonce) ==
    LocalStep("mine_block", mine_block(bc[1], max_transactions, random_value, nonce),
              <<max_transactions, random_value, nonce>>)

NextLocal ==
    \/ \E a \in {"U", "T"} : LCreateAccount("Wallet", a)
    \/ \E s \in LocalSenders, r \in LocalReceivers, a \in LocalAmounts,
          k \in {NoKey, TreasuryPriv}, now \in LocalTimes :
          LAddTransaction(s, r, a, k, GasFee, now)
    \/ \E m \in LocalMaxTx, r \in Draws(bc[1].validators) : LMineBlock(m, r, 1000)

SpecLocal == Init /\ [][NextLocal]_vars

\* C31: mine_block puts the first min(max_transactions, length of the mempool)
\* pending transactions into the block in their order and leaves the rest of the
\* mempool in its order
C31_MineTakesOldest ==
    [][(EngineCall("mine_block") /\ ret'.ok) =>
         LET pend == bc[1].pending_transactions
             k == IF ret'.arg[1] < Len(pend) THEN ret'.arg[1] ELSE Len(pend)
             block == bc'[1].blockchain[Len(bc'[1].blockchain)]
         IN  /\ block.transactions = [i \in 1..k |-> pend[i]]
             /\ bc'[1].pending_transactions = [i \in 1..(Len(pend) - k) |-> pend[k + i]]]_vars

\* a block was mined with one transaction while a later one stays pending
C31_Witness ==
    /\ ret.op = "mine_block"
    /\ ret.ok
    /\ ret.arg[1] = 1
    /\ Len(bc[1].blockchain[Len(bc[1].blockchain)].transactions) = 1
    /\ bc[1].pending_transactions # <<>>
    /\ bc[1].blockchain[Len(bc[1].blockchain)].transactions[1].timestamp
          # bc[1].pending_transactions[1].timestamp

RECURSIVE SumTo(_, _)
\* the amounts of the transactions of txs paid to address a
SumTo(txs, a) ==
    IF txs = <<>> THEN 0
    ELSE (IF Head(txs).receiver = a THEN Head(txs).amount ELSE 0) + SumTo(Tail(txs), a)

\* C32: a successful mine_block appends one block numbered one more than the head
\* and naming the head's hash; every balance grows by the amounts the block's
\* transactions pay to the account, and by base_reward + the block's gas fees for
\* the reward address of the block's validator, which exists afterwards; no
\* balance is debited
C32_MineAppendsBlock ==
    [][(EngineCall("mine_block") /\ ret'.ok) =>
         LET old == bc[1]
             new == bc'[1]
             head == Head_(old)
             block == Head_(new)
             val == old.validators[FindValidator(old.validators, block.validator)]
             reward == BaseReward + SumFees(block.transactions)
         IN  /\ new.blockchain = Append(old.blockchain, block)
             /\ block.number = head.number + 1
             /\ block.previous_hash = head.hash
             /\ val.reward_address \in DOMAIN new.accounts
             /\ \A a \in DOMAIN new.accounts :
                   new.accounts[a].balance =
                       BalanceOf(old, a) + SumTo(block.transactions, a)
                         + (IF a = val.reward_address THEN reward ELSE 0)]_vars

\* C33: a successful add_transaction takes amount + gas_fee from the sender's
\* balance, appends the one new transaction at the tail of the mempool, makes an
\* account of balance 0 for a receiver not known before, and leaves the balance
\* of the receiver and of every other account as it was
C33_AddTransactionEffect ==
    [][(EngineCall("add_transaction") /\ ret'.ok) =>
         LET old == bc[1]
             new == bc'[1]
             sender == ret'.arg[1]
             receiver == ret'.arg[2]
             amount == ret'.arg[3]
             gas_fee == ret'.arg[5]
             tx == Last(new.pending_transactions)
         IN  /\ new.accounts[sender].balance =
                   FSub(old.accounts[sender].balance, FAdd(amount, gas_fee))
             /\ new.pending_transactions = Append(old.pending_transactions, tx)
             /\ tx.sender = sender /\ tx.receiver = receiver
             /\ tx.amount = amount /\ tx.gas_fee = gas_fee
             /\ DOMAIN new.accounts = DOMAIN old.accounts \cup {receiver}
             /\ receiver \notin DOMAIN old.accounts => new.accounts[receiver].balance = 0
             /\ \A a \in DOMAIN old.accounts \ {sender} : new.accounts[a] = old.accounts[a]
             /\ new.blockchain = old.blockchain]_vars

\* the first operation was a transfer to an address not known before, which now
\* has an account of balance 0 while the sender paid amount + gas_fee
C33_Witness ==
    /\ nOps = 1
    /\ ret.op = "add_transaction"
    /\ ret.ok
    /\ ret.arg[2] = "U"
    /\ bc[1].accounts["U"].balance = 0
    /\ Len(bc[1].pending_transactions) = 1
    /\ bc[1].accounts[ret.arg[1]].balance < NodeEngineInit(1).accounts[ret.arg[1]].balance

\* C34: after add_block_from_network accepts a block the mempool holds no
\* transaction with the hash of a transaction of the block, and is the mempool
\* of before without those, in the same order
C34_BlockPurgesMempool ==
    [][(EngineCall("new_block") /\ ret'.ok) =>
         LET hashes == HashSet(BlockFromDict(ret'.arg).transactions)
             InBlock(i) == bc[1].pending_transactions[i].tx_hash \in hashes
             old == bc[1].pending_transactions
             new == bc'[1].pending_transactions
             kept == {i \in 1..Len(old) : ~InBlock(i)}
         IN  /\ HashSet(new) \cap hashes = {}
             /\ Len(new) = Cardinality(kept)
             /\ \A i \in kept :
                   new[Cardinality({j \in kept : j <= i})] = old[i]]_vars

\* the third message was a block with the faucet transfer, accepted on top of
\* genesis, and the transfer that is not in it is still pending
C34_Witness ==
    /\ nOps = 3
    /\ Len(bc[1].blockchain) = 2
    /\ ret.op = "new_block"
    /\ ret.ok
    /\ HashSet(BlockFromDict(ret.arg).transactions) = {SignedTx.tx_hash}
    /\ bc[1].pending_transactions = <<UnsignedTx>>

RECURSIVE BalanceAfterTxs(_, _, _)
\* the balance bal of address a after the transactions txs in their order: less
\* amount + gas_fee of each one a sends, plus the amount of each one a receives
BalanceAfterTxs(bal, txs, a) ==
    IF txs = <<>> THEN bal
    ELSE LET tx == Head(txs)
             debited == IF tx.sender = a THEN FSub(bal, FAdd(tx.amount, tx.gas_fee)) ELSE bal
             credited == IF tx.receiver = a THEN FAdd(debited, tx.amount) ELSE debited
         IN  BalanceAfterTxs(credited, Tail(txs), a)

RECURSIVE BalanceAfterBlocks(_, _, _, _)
\* the balance bal of address a after the blocks in their order: the transactions
\* of each block, then base_reward + fees if the block's validator name is
\* registered in validators with reward address a
BalanceAfterBlocks(bal, blocks, validators, a) ==
    IF blocks = <<>> THEN bal
    ELSE LET block == Head(blocks)
             vi == FindValidator(validators, block.validator)
             moved == BalanceAfterTxs(bal, block.transactions, a)
             paid == IF vi # 0 /\ validators[vi].reward_address = a
                     THEN FAdd(moved, FAdd(BaseReward, SumFees(block.transactions)))
                     ELSE moved
         IN  BalanceAfterBlocks(paid, Tail(blocks), validators, a)

\* the balance of address a that the chain of engine e implies
ImpliedBalance(e, a) ==
    BalanceAfterBlocks(IF a = TreasuryAddr THEN TreasuryGenesis ELSE 0,
                       Tail(e.blockchain), e.validators, a)

\* the addresses the chain of engine e names: the treasury, senders, receivers
\* and the reward addresses of the registered validators of its blocks
ImpliedAccounts(e) ==
    LET txs == ChainTxs(Tail(e.blockchain))
        blocks == Tail(e.blockchain)
    IN  {TreasuryAddr}
          \cup {txs[i].sender : i \in 1..Len(txs)} \cup {txs[i].receiver : i \in 1..Len(txs)}
          \cup {e.validators[FindValidator(e.validators, blocks[i].validator)].reward_address :
                  i \in {j \in 1..Len(blocks) :
                            FindValidator(e.validators, blocks[j].validator) # 0}}

\* C35: rebuild_state empties the mempool, leaves the chain and the validators
\* as they were, and leaves exactly the accounts the chain names, each with the
\* balance the chain implies: the genesis balance for the treasury and 0 for the
\* others, less amount + gas_fee of every transaction sent, plus the amount of
\* every transaction received, plus base_reward + fees of every block whose
\* validator name is registered now with the account as reward address
C35_RebuildFromChain ==
    [][EngineCall("rebuild_state") =>
         /\ bc'[1].pending_transactions = <<>>
         /\ bc'[1].blockchain = bc[1].blockchain
         /\ bc'[1].validators = bc[1].validators
         /\ bc'[1].current_block_number = bc[1].current_block_number
         /\ DOMAIN bc'[1].accounts = ImpliedAccounts(bc[1])
         /\ \A a \in DOMAIN bc'[1].accounts :
               bc'[1].accounts[a].balance = ImpliedBalance(bc[1], a)]_vars

\* rebuild_state ran on a chain with a block that moves funds; the account the
\* node made for itself outside the chain is gone
C35_Witness ==
    /\ ret.op = "rebuild_state"
    /\ \E i \in 2..Len(bc[1].blockchain) : bc[1].blockchain[i].transactions # <<>>
    /\ NodeTreasuryAddr(1) \notin DOMAIN bc[1].accounts
    /\ bc[1].accounts["U"].balance > 0

\* C36: on every node every validator of the list has a stake of at least the
\* minimum stake
C36_StakeAtLeastMinimum ==
    \A n \in Nodes : \A i \in 1..Len(bc[n].validators) : bc[n].validators[i].stake >= MinStake

\* C37: the NEW_TX message that send_transaction broadcasts carries the
\* transaction that its own call of add_transaction made
C37_BroadcastsOwnTx ==
    ret.op = "send_transaction" => ret.arg[2] = ret.arg[1]

(***************************************************************************)
(* Connecting (SpecConnect): connect_to_peer called with any endpoint, its   *)
(* own and known ones included, the peer reachable or not; ret records the   *)
(* call and whether it opened a connection.                                 *)
(***************************************************************************)
MaxConnectOps == 3

\* connect_to_peer without the check of the known-peer set
connect_to_peer_NoKnownCheck(n, m, reachable) ==
    LET c == <<n, m>>
        opens == n # m /\ reachable
    IN  /\ nOps < MaxConnectOps
        /\ nOps' = nOps + 1
        /\ ret' = [op |-> "connect_to_peer", node |-> n, ok |-> opens, arg |-> m]
        /\ IF opens
           THEN /\ peers' = [peers EXCEPT ![n] = @ \cup {m}]
                /\ active' = [active EXCEPT ![n] = @ \cup {c}]
                /\ chan' = Send(Send(chan, c, n, [type |-> "HANDSHAKE"]), c, n,
                                [type |-> "GET_CHAIN"])
                /\ readers' = readers \cup {<<c, n>>}
           ELSE UNCHANGED <<peers, active, chan, readers>>
        /\ UNCHANGED <<pc, loc, bc, events, debits>>

\* connect_to_peer(m) by node n: returns at once for its own endpoint and for a
\* known one; an exception of connect() is caught before anything is recorded
connect_to_peer(n, m, reachable) ==
    LET c == <<n, m>>
        opens == n # m /\ m \notin peers[n] /\ reachable
    IN  /\ nOps < MaxConnectOps
        /\ nOps' = nOps + 1
        /\ ret' = [op |-> "connect_to_peer", node |-> n, ok |-> opens, arg |-> m]
        /\ IF opens
           THEN /\ peers' = [peers EXCEPT ![n] = @ \cup {m}]
                /\ active' = [active EXCEPT ![n] = @ \cup {c}]
                /\ chan' = Send(Send(chan, c, n, [type |-> "HANDSHAKE"]), c, n,
                                [type |-> "GET_CHAIN"])
                /\ readers' = readers \cup {<<c, n>>}
           ELSE UNCHANGED <<peers, active, chan, readers>>
        /\ UNCHANGED <<pc, loc, bc, events, debits>>

NextConnect ==
    \/ \E n \in Nodes, m \in Nodes, reachable \in BOOLEAN : connect_to_peer(n, m, reachable)
    \/ \E c \in Conns : Accept(c)
    \/ \E n \in Nodes, c \in Conns : HandleHandshake(n, c)
    \/ \E n \in Nodes, c \in Conns : HandleGetChain(n, c)
    \/ \E n \in Nodes, c \in Conns : HandleChainResponse(n, c)

SpecConnect == Init /\ [][NextConnect]_vars

\* C38: connect_to_peer to the node's own endpoint or to a known endpoint
\* changes no connection, sends no message and starts no reader; a call that
\* opens a connection makes the endpoint known, and known endpoints stay known
C38_NoSecondConnection ==
    [][/\ \A n \in Nodes : peers[n] \subseteq peers'[n]
       /\ EngineCall("connect_to_peer") =>
            LET n == ret'.node
                m == ret'.arg
            IN  /\ (m = n \/ m \in peers[n]) =>
                      /\ ~ret'.ok
                      /\ UNCHANGED <<peers, active, chan, readers>>
                /\ ret'.ok => m \in peers'[n] /\ m \notin peers[n]]_vars

\* connect_to_peer was called for an endpoint the node is connected to, whose
\* handshake has been read already: no new one was sent
C38_Witness ==
    /\ ret.op = "connect_to_peer"
    /\ ~ret.ok
    /\ ret.arg # ret.node
    /\ ret.arg \in peers[ret.node]
    /\ <<ret.node, ret.arg>> \in active[ret.node]
    /\ \A i \in 1..Len(chan[<<ret.node, ret.arg>>][ret.arg]) :
          chan[<<ret.node, ret.arg>>][ret.arg][i].type # "HANDSHAKE"
    /\ <<<<ret.node, ret.arg>>, ret.arg>> \in readers

(***************************************************************************)
(* Broadcasting over broken connections (SpecBroadcast): node 1 with both    *)
(* connections live; the peer may close its end of a connection, after which *)
(* a send on it fails and the reader loop of node 1 on it ends.  The facade  *)
(* thread 0 broadcasts; the statements that test and change                  *)
(* active_connections are steps of their own, as no lock is held.            *)
(***************************************************************************)
MaxBroadcastOps == 3

\* the peer has closed its end of connection c
PeerClosed(c) == <<c, Other(c, 1)>> \notin readers

\* the peer closes its end of connection c
PeerCloses(c) ==
    /\ nOps < MaxBroadcastOps
    /\ ~PeerClosed(c)
    /\ nOps' = nOps + 1
    /\ readers' = readers \ {<<c, Other(c, 1)>>}
    /\ UNCHANGED <<bc, peers, active, chan, events, ret, debits, pc, loc>>

\* handle_client: the loop of reader t ends at the end of the stream
HcEnd(t) ==
    /\ t # 0
    /\ pc[t] = "idle"
    /\ <<ConnOf(t), 1>> \in readers
    /\ PeerClosed(ConnOf(t))
    /\ readers' = readers \ {<<ConnOf(t), 1>>}
    /\ Goto(t, "hc_check")
    /\ UNCHANGED <<bc, peers, active, chan, events, ret, debits, nOps, loc>>

\* handle_client, finally: if conn in self.active_connections
HcCheck(t) ==
    /\ pc[t] = "hc_check"
    /\ IF ConnOf(t) \in active[1] THEN Goto(t, "hc_remove") /\ UNCHANGED loc ELSE Return(t)
    /\ UNCHANGED <<bc, peers, active, readers, chan, events, ret, debits, nOps>>

\* handle_client, finally: self.active_connections.remove(conn); a ValueError
\* ends the thread
HcRemove(t) ==
    /\ pc[t] = "hc_remove"
    /\ active' = [active EXCEPT ![1] = @ \ {ConnOf(t)}]
    /\ Return(t)
    /\ UNCHANGED <<bc, peers, readers, chan, events, ret, debits, nOps>>

\* broadcast(msg) called by the facade: the loop runs over a copy of
\* active_connections
BcStart ==
    /\ pc[0] = "idle"
    /\ nOps < MaxBroadcastOps
    /\ nOps' = nOps + 1
    /\ loc' = [loc EXCEPT ![0] = [todo |-> active[1], sent |-> {}, failed |-> {},
                                  conn |-> <<>>]]
    /\ Goto(0, "bc_send")
    /\ UNCHANGED <<bc, peers, active, readers, chan, events, ret, debits>>

\* send_message on the next connection of the copy: sendall, which raises on a
\* connection the peer has closed; after the last one broadcast returns
BcSend ==
    /\ pc[0] = "bc_send"
    /\ IF loc[0].todo = {}
       THEN /\ ret' = [op |-> "broadcast", node |-> 1, ok |-> TRUE,
                       arg |-> [sent |-> loc[0].sent, failed |-> loc[0].failed]]
            /\ Return(0)
            /\ UNCHANGED chan
       ELSE \E c \in loc[0].todo :
               /\ IF PeerClosed(c)
                  THEN /\ loc' = [loc EXCEPT ![0].todo = @ \ {c}, ![0].failed = @ \cup {c},
                                             ![0].conn = c]
                       /\ Goto(0, "bc_check")
                       /\ UNCHANGED chan
                  ELSE /\ chan' = Send(chan, c, 1, [type |-> "NEW_TX"])
                       /\ loc' = [loc EXCEPT ![0].todo = @ \ {c}, ![0].sent = @ \cup {c}]
                       /\ UNCHANGED pc
               /\ UNCHANGED ret
    /\ UNCHANGED <<bc, peers, active, readers, events, debits, nOps>>

\* send_message, except: if conn in self.active_connections
BcCheck ==
    /\ pc[0] = "bc_check"
    /\ IF loc[0].conn \in active[1] THEN Goto(0, "bc_remove") ELSE Goto(0, "bc_send")
    /\ UNCHANGED <<bc, peers, active, readers, chan, events, ret, debits, nOps, loc>>

\* send_message, except: self.active_connections.remove(conn); the ValueError
\* of a connection no longer in the list leaves send_message and broadcast
BcRemove ==
    /\ pc[0] = "bc_remove"
    /\ IF loc[0].conn \in active[1]
       THEN /\ active' = [active EXCEPT ![1] = @ \ {loc[0].conn}]
            /\ Goto(0, "bc_send")
            /\ UNCHANGED <<ret, loc>>
       ELSE /\ ret' = [op |-> "broadcast", node |-> 1, ok |-> FALSE,
                       arg |-> [sent |-> loc[0].sent, failed |-> loc[0].failed]]
            /\ Return(0)
            /\ UNCHANGED active
    /\ UNCHANGED <<bc, peers, readers, chan, events, debits, nOps>>

NextBroadcast ==
    \/ \E c \in Conns : PeerCloses(c)
    \/ \E t \in Threads : HcEnd(t)
    \/ \E t \in Threads : HcCheck(t)
    \/ \E t \in Threads : HcRemove(t)
    \/ BcStart
    \/ BcSend
    \/ BcCheck
    \/ BcRemove

SpecBroadcast == InitConc /\ [][NextBroadcast]_vars

\* C39: a broadcast ends without an error; every connection it ran over got the
\* message or failed, and no connection that failed is live afterwards
C39_BroadcastSurvivesFailure ==
    ret.op = "broadcast" =>
        /\ ret.ok
        /\ ret.arg.failed \cap active[1] = {}


(***************************************************************************)
(* The supply of a node that works alone (SpecLocal): what the accounts     *)
(* hold plus what the mempool has debited and not yet credited.             *)
(***************************************************************************)
RECURSIVE SumBalances(_, _)
\* the sum of the balances of the accounts at the addresses of set as
SumBalances(accounts, as) ==
    IF as = {} THEN 0
    ELSE LET a == CHOOSE x \in as : TRUE
         IN  accounts[a].balance + SumBalances(accounts, as \ {a})

RECURSIVE SumHeld(_)
\* the sum of amount + gas_fee over a list of transactions
SumHeld(txs) ==
    IF txs = <<>> THEN 0
    ELSE Head(txs).amount + Head(txs).gas_fee + SumHeld(Tail(txs))

TotalSupply(e) ==
    SumBalances(e.accounts, DOMAIN e.accounts) + SumHeld(e.pending_transactions)

====
